---- MODULE Spec2Model ----
(***************************************************************************)
(* Model of netcdf_visualizer2.py: the per-session script run (age sweep,  *)
(* scratch file, engine fallback, post-open pipeline, on-exit cleanup)     *)
(* over a scratch directory shared by concurrent sessions.                 *)
(*                                                                         *)
(* Time is counted in ticks of half a second, the resolution of the sleeps *)
(* of safe_remove; time.time() is the clock, int(time.time()) its second.  *)
(* The clock is read at its last reading or later, so time passes between  *)
(* any two readings.  A sleeping script is resumed at any later step: the  *)
(* length of a sleep is recorded, and the time it takes is the clock's to  *)
(* pass.                                                                   *)
(***************************************************************************)
EXTENDS Integers, Sequences, FiniteSets, TLC

\* ---------------------------------------------------------------- bounds
\* Script runs started over all sessions.
MaxRuns == 2
\* Ticks the clock advances past its initial reading.
MaxTicks == 1

\* ------------------------------------------------------ program constants
\* Clock ticks per second (sleeps are multiples of 0.5 s).
TicksPerSec == 2
\* cleanup_temp_dir: file_age > 3600 (seconds).
MaxAge == 3600
\* safe_remove: range(5).
MaxTries == 5
\* finally: time.sleep(2) (seconds).
ExitDelay == 2

\* Browser sessions, each running the script in a thread of its own.
Sessions == {1, 2}

\* engines = ['netcdf4', 'h5netcdf', 'scipy']
engines == <<"netcdf4", "h5netcdf", "scipy">>

\* What an uploaded file is to the loader: the engines able to open its bytes.
Contents ==
  { {"netcdf4", "h5netcdf", "scipy"}, {"h5netcdf", "scipy"}, {"scipy"}, {} }

\* The clock reading of the first script run.
StartClock == MaxAge * TicksPerSec + 11

\* Scratch files left in netcdf_temp_files by earlier runs of the app whose
\* on-exit deletion failed: one older than an hour at StartClock, one exactly
\* an hour old.  A file is named by the second of its creation.
Leftovers ==
  (0 :> [mtime |-> 0,  content |-> {"scipy"}, owner |-> <<0, 0>>]) @@
  (5 :> [mtime |-> 11, content |-> {},        owner |-> <<0, 0>>])

VARIABLES
  clock,    \* the last reading of time.time() or of a file time, in ticks
  locking,  \* whether the platform refuses to remove or rewrite an open file
  files,    \* netcdf_temp_files: name |-> [mtime, content, owner (the run that wrote it)]
  removed,  \* history: the names removed from the directory so far
  runs,     \* script runs started so far
  ses,      \* per session: the position and the locals of its script run
  pipe,     \* the locals of lines 85-297 of one script run, stage by stage
  norm,     \* one call of process_data: its arguments and its outcome
  doc,      \* contract_en.py: one call of replace_placeholder on a paragraph
  app       \* one run of a plotting script: its inputs, its locals, its outputs

vars == <<clock, locking, files, removed, runs, ses, pipe, norm, doc, app>>


\* No first sweep on record.
NoFirst == [now |-> -1, dir |-> {}, failed |-> {}]

\* The locals of a script run before its first statement.
Fresh ==
  [ pc        |-> "idle",
    run       |-> 0,         \* the ordinal of this script run in its session
    uploaded  |-> FALSE,     \* uploaded_file is not None
    site      |-> "none",    \* the call of cleanup_temp_dir in progress: button, upload
    sweep     |-> 0,         \* calls of cleanup_temp_dir begun in this run
    now       |-> 0,         \* cleanup_temp_dir: now
    listing   |-> {},        \* cleanup_temp_dir: names of os.listdir still to visit
    cur       |-> -1,        \* cleanup_temp_dir: filename
    failed    |-> {},        \* cleanup_temp_dir: names whose os.remove raised
    first     |-> NoFirst,   \* history: the first of two sweeps of this run
    temp_path |-> -1,        \* the <unix-timestamp> of temp_path, -1 before line 144
    created   |-> 0,         \* directory entries this run created
    tried     |-> <<>>,      \* engines attempted, in order
    warnings  |-> 0,         \* st.warning("... engine failed") calls
    data      |-> {},        \* {} (None) or {engine}: the Dataset, by the engine that opened it
    stage     |-> "none",    \* the furthest stage entered after loading
    outcome   |-> "running",
    attempts  |-> 0,         \* safe_remove: os.remove calls made
    waited    |-> 0,         \* length of the last time.sleep, in ticks
    ret       |-> "None" ]   \* safe_remove's return value: None, True, False

\* ------------------------------------------- lines 47-119 and 166-297: data
\* The four bounds of the region, the p-values and their threshold range over
\* 0..MaxDeg.
MaxDeg == 1
Degrees == 0..MaxDeg

\* The variables the pipeline leaves alone.
Rest == <<clock, locking, files, removed, runs, ses, norm, doc, app>>

\* The elements of seq at the positions in S from position i on, in order.
RECURSIVE PickFrom(_, _, _)
PickFrom(seq, S, i) ==
  IF i > Len(seq) THEN <<>>
  ELSE (IF i \in S THEN <<seq[i]>> ELSE <<>>) \o PickFrom(seq, S, i + 1)

\* seq[sorted(S)]
Pick(seq, S) == PickFrom(seq, S, 1)

\* ['latitude', 'lat', 'y'] and ['longitude', 'lon', 'x'] of lines 176-177
LatAliases == <<"latitude", "lat", "y">>
LonAliases == <<"longitude", "lon", "x">>

\* FirstOf taking the last alias present; C12_FirstAlias does not hold of it.
LastOf(aliases, coords) ==
  LET hits == {i \in 1..Len(aliases) : aliases[i] \in coords}
  IN  IF hits = {} THEN {}
      ELSE {aliases[CHOOSE i \in hits : \A k \in hits : i >= k]}

\* next((v for v in aliases if v in data.coords), None); {} stands for None
FirstOf(aliases, coords) ==
  LET hits == {i \in 1..Len(aliases) : aliases[i] \in coords}
  IN  IF hits = {} THEN {}
      ELSE {aliases[CHOOSE i \in hits : \A k \in hits : i <= k]}

\* The sets data.coords is drawn from: each alias pair alone, several aliases
\* of an axis at once, one axis or both without an alias.
CoordSets ==
  { {"latitude", "longitude", "time"},
    {"lat", "lon"},
    {"y", "x", "time"},
    {"y", "lat", "x", "longitude"},
    {"lat", "time"},
    {"time", "x", "lon"},
    {"time"} }

\* time_keywords of is_time_related, a string being the sequence of its
\* characters.
time_keywords ==
  << <<"t", "i", "m", "e">>, <<"d", "a", "t", "e">>, <<"y", "e", "a", "r">>,
     <<"m", "o", "n", "t", "h">>, <<"d", "a", "y">>, <<"h", "o", "u", "r">>,
     <<"m", "i", "n", "u", "t", "e">>, <<"s", "e", "c", "o", "n", "d">> >>

\* str.lower() on one character, for the capitals the names below use.
LowerChar(c) ==
  CASE c = "T" -> "t" [] c = "D" -> "d" [] c = "Y" -> "y" [] OTHER -> c

\* var_name.lower()
Lower(s) == [i \in 1..Len(s) |-> LowerChar(s[i])]

\* kw in s
Contains(kw, s) ==
  \E i \in 1..(Len(s) - Len(kw) + 1) : SubSeq(s, i, i + Len(kw) - 1) = kw

\* is_time_related without lower(); C13_VariableList does not hold of it.
is_time_related_cased(var_name) ==
  \E k \in 1..Len(time_keywords) : Contains(time_keywords[k], var_name)

\* is_time_related, lines 51-54
is_time_related(var_name) ==
  \E k \in 1..Len(time_keywords) : Contains(time_keywords[k], Lower(var_name))

\* is_numeric, lines 47-49: dtype.kind in 'iufc'
is_numeric(a) == a.kind \in {"i", "u", "f", "c"}

\* np.issubdtype(dtype, np.datetime64)
is_datetime(a) == a.kind = "M"

\* Data variables: name, dtype.kind and dims, "Y" and "X" standing for the two
\* dimensions of the grid.
Precip   == [name |-> <<"p", "r", "e", "c", "i", "p">>, kind |-> "f",
             dims |-> <<"time", "lev", "Y", "X">>]
Pval     == [name |-> <<"p", "v", "a", "l">>, kind |-> "f", dims |-> <<"Y", "X">>]
TimeBnds == [name |-> <<"T", "i", "m", "e", "_", "b", "n", "d", "s">>, kind |-> "f",
             dims |-> <<"time", "nv">>]
Stamp    == [name |-> <<"s", "t", "a", "m", "p">>, kind |-> "M", dims |-> <<"Y", "X">>]
Elev     == [name |-> <<"e", "l", "e", "v">>, kind |-> "f", dims |-> <<"Y">>]
Flags    == [name |-> <<"f", "l", "a", "g", "s">>, kind |-> "U", dims |-> <<"Y", "X">>]
Tp       == [name |-> <<"t", "p">>, kind |-> "f", dims |-> <<"X", "Y">>]

\* The lists data.data_vars is drawn from: one with a variable for every case
\* of lines 196-203, one without any eligible variable, one empty.
DataVarSets ==
  { <<Precip, Pval, TimeBnds, Stamp, Elev, Flags, Tp>>,
    <<TimeBnds, Stamp, Elev>>,
    <<>> }

\* Lines 194-203: the variable is appended to spatial_vars.
Eligible(v) ==
  /\ ~(is_time_related(v.name) \/ is_datetime(v))
  /\ ~(Len(v.dims) < 2)

\* Lines 191-208: spatial_vars, with the fallback to all_vars.
SpatialVars(all_vars) ==
  LET spatial == Pick(all_vars, {i \in 1..Len(all_vars) : Eligible(all_vars[i])})
  IN  IF spatial = <<>> THEN all_vars ELSE spatial

\* The option "None" of line 212.
NoneOption == <<"N", "o", "n", "e">>

\* ['latitude', 'longitude', 'lat', 'lon'] of line 74
ReduceKeep == {"latitude", "longitude", "lat", "lon"}

\* reduce_to_2d, lines 66-78: an array is its dims, its shape and the indices
\* isel has pinned.
reduce_to_2d(a) ==
  IF Len(a.dims) = 2 THEN a
  ELSE LET keep == {i \in 1..Len(a.dims) : a.dims[i] \in ReduceKeep}
       IN  [a EXCEPT !.dims = Pick(a.dims, keep),
                     !.shape = Pick(a.shape, keep),
                     !.pinned = @ \cup {<<a.dims[i], 0>> : i \in (1..Len(a.dims)) \ keep}]

\* A coordinate array: its shape and its values, a sequence when 1D and a
\* sequence of rows when 2D.
Arr1(v) == [shape |-> <<Len(v)>>, v |-> v]
Arr2(v) == [shape |-> <<Len(v), Len(v[1])>>, v |-> v]

\* The coordinate arrays the dataset is drawn from: the latitude along the
\* first dimension of the grid and the longitude along the second, each 1D or
\* 2D (a curvilinear grid).
Grids ==
  << [lat |-> Arr1(<<0, 1, 2>>), lon |-> Arr1(<<0, 2>>)],
     [lat |-> Arr1(<<2, 1>>), lon |-> Arr1(<<1>>)],
     [lat |-> Arr2(<< <<0, 1>>, <<1, 2>> >>), lon |-> Arr2(<< <<0, 1>>, <<1, 2>> >>)],
     [lat |-> Arr1(<<0, 1>>), lon |-> Arr2(<< <<0, 1, 2>>, <<1, 2, 0>> >>)],
     [lat |-> Arr2(<< <<0, 0>>, <<1, 1>>, <<2, 2>> >>), lon |-> Arr1(<<1, 2>>)] >>

\* 1..n as a sequence
Iota(n) == [i \in 1..n |-> i]

\* The grid of a dataset: the two coordinate arrays, the labels of the rows and
\* columns present, and the points (by label) whose values are defined.
Grid(g) ==
  LET m == g.lat.shape[1]
      n == g.lon.shape[Len(g.lon.shape)]
  IN  [lat |-> g.lat, lon |-> g.lon, rows |-> Iota(m), cols |-> Iota(n),
       defined |-> (1..m) \X (1..n)]

\* No grid yet.
NoGrid == [lat |-> Arr1(<<>>), lon |-> Arr1(<<>>), rows |-> <<>>, cols |-> <<>>,
           defined |-> {}]

\* The latitude and the longitude of the point at row i and column j.
LatAt(d, i, j) == IF Len(d.lat.shape) = 1 THEN d.lat.v[i] ELSE d.lat.v[i][j]
LonAt(d, i, j) == IF Len(d.lon.shape) = 1 THEN d.lon.v[j] ELSE d.lon.v[i][j]

\* InBox with the bounds left out; C14_InclusiveBox does not hold of it.
InBoxOpen(R, la, lo) ==
  /\ la > R.lat_min /\ la < R.lat_max
  /\ lo > R.lon_min /\ lo < R.lon_max

\* Lines 185-186: the condition of the where.
InBox(R, la, lo) ==
  /\ la >= R.lat_min /\ la <= R.lat_max
  /\ lo >= R.lon_min /\ lo <= R.lon_max

\* A coordinate array restricted to the rows keepR and the columns keepC;
\* axis tells which of the two a 1D array runs along.
SliceCoord(c, axis, keepR, keepC) ==
  IF Len(c.shape) = 1
    THEN Arr1(Pick(c.v, IF axis = "Y" THEN keepR ELSE keepC))
    ELSE LET rs == Pick(c.v, keepR)
         IN  [shape |-> <<Cardinality(keepR), Cardinality(keepC)>>,
              v |-> [i \in 1..Len(rs) |-> Pick(rs[i], keepC)]]

\* Where dropping the first row it keeps; C15_SubsetIdempotent does not hold
\* of it.
WhereShrinking(d, R) ==
  LET m == Len(d.rows)
      n == Len(d.cols)
      hit(i, j) == InBox(R, LatAt(d, i, j), LonAt(d, i, j))
      allR == {i \in 1..m : \E j \in 1..n : hit(i, j)}
      keepR == allR \ {i \in allR : \A k \in allR : i <= k}
      keepC == {j \in 1..n : \E i \in 1..m : hit(i, j)}
  IN  [lat |-> SliceCoord(d.lat, "Y", keepR, keepC),
       lon |-> SliceCoord(d.lon, "X", keepR, keepC),
       rows |-> Pick(d.rows, keepR),
       cols |-> Pick(d.cols, keepC),
       defined |-> {p \in d.defined :
                      \E i \in keepR, j \in keepC :
                        p = <<d.rows[i], d.cols[j]>> /\ hit(i, j)}]

\* Lines 184-188: data.where(cond, drop=True).  A label is kept along each
\* dimension of cond when cond holds somewhere along the other dimension; the
\* coordinates are sliced, the values are left defined where cond holds.
Where(d, R) ==
  LET m == Len(d.rows)
      n == Len(d.cols)
      hit(i, j) == InBox(R, LatAt(d, i, j), LonAt(d, i, j))
      keepR == {i \in 1..m : \E j \in 1..n : hit(i, j)}
      keepC == {j \in 1..n : \E i \in 1..m : hit(i, j)}
  IN  [lat |-> SliceCoord(d.lat, "Y", keepR, keepC),
       lon |-> SliceCoord(d.lon, "X", keepR, keepC),
       rows |-> Pick(d.rows, keepR),
       cols |-> Pick(d.cols, keepC),
       defined |-> {p \in d.defined :
                      \E i \in keepR, j \in keepC :
                        p = <<d.rows[i], d.cols[j]>> /\ hit(i, j)}]

\* The regions the four number_input of lines 91-95 can give.
Regions ==
  [lat_min : Degrees, lat_max : Degrees, lon_min : Degrees, lon_max : Degrees]

\* The names of the two dimensions of the grid: a 1D coordinate is the
\* coordinate of the dimension of its name, a 2D one lies over "y" and "x".
YDim(d, lat_var) == IF Len(d.lat.shape) = 1 THEN lat_var ELSE "y"
XDim(d, lon_var) == IF Len(d.lon.shape) = 1 THEN lon_var ELSE "x"

\* Length of the dimensions outside the grid (time, lev, nv).
OtherLen == 2

\* subset[var]: the dims of the variable, with the dimensions of cond it lacks
\* appended (where broadcasts the variable against cond), and their lengths.
Variable(v, d, ydim, xdim) ==
  LET own == [i \in 1..Len(v.dims) |->
                IF v.dims[i] = "Y" THEN ydim
                ELSE IF v.dims[i] = "X" THEN xdim ELSE v.dims[i]]
      has(x) == \E i \in 1..Len(own) : own[i] = x
      dims == own \o (IF has(ydim) THEN <<>> ELSE <<ydim>>)
                  \o (IF has(xdim) THEN <<>> ELSE <<xdim>>)
  IN  [dims |-> dims,
       shape |-> [i \in 1..Len(dims) |->
                    IF dims[i] = ydim THEN Len(d.rows)
                    ELSE IF dims[i] = xdim THEN Len(d.cols) ELSE OtherLen],
       pinned |-> {},
       kind |-> v.kind]

\* No array yet.
NoArray == [dims |-> <<>>, shape |-> <<>>, pinned |-> {}, kind |-> "none"]

\* process_data, lines 56-64, by the shape of what it returns ({} when it
\* raises): the values scaled; for timestamps one ordinal for each element of
\* a 1D array, pd.Timestamp of a row raising TypeError; ValueError otherwise.
process_data(a) ==
  IF is_numeric(a) THEN {a.shape}
  ELSE IF is_datetime(a) THEN (IF Len(a.shape) = 1 THEN {a.shape} ELSE {})
  ELSE {}

\* Meshgrid with indexing="ij"; C19_Meshgrid does not hold of it.
MeshgridIJ(x, y) ==
  [shape |-> <<Len(x), Len(y)>>,
   X |-> [i \in 1..Len(x) |-> [j \in 1..Len(y) |-> x[i]]],
   Y |-> [i \in 1..Len(x) |-> [j \in 1..Len(y) |-> y[j]]]]

\* np.meshgrid(x, y): two arrays of shape (len(y), len(x)), X repeating x
\* along the rows and Y repeating y along the columns.
Meshgrid(x, y) ==
  [shape |-> <<Len(y), Len(x)>>,
   X |-> [i \in 1..Len(y) |-> [j \in 1..Len(x) |-> x[j]]],
   Y |-> [i \in 1..Len(y) |-> [j \in 1..Len(x) |-> y[i]]]]

\* np.tile(lat[:, np.newaxis], (1, n))
TileCols(c, n) ==
  [shape |-> <<Len(c.v), n>>, v |-> [i \in 1..Len(c.v) |-> [j \in 1..n |-> c.v[i]]]]

\* np.tile(lon[np.newaxis, :], (m, 1))
TileRows(c, m) ==
  [shape |-> <<m, Len(c.v)>>, v |-> [i \in 1..m |-> [j \in 1..Len(c.v) |-> c.v[j]]]]

\* Lines 225-234: lat and lon made 2D; pshape is processed_data.shape.
Broadcast(lat, lon, pshape) ==
  IF Len(lat.shape) = 1 /\ Len(lon.shape) = 1
    THEN LET g == Meshgrid(lon.v, lat.v)
         IN  [lat |-> [shape |-> g.shape, v |-> g.Y],
              lon |-> [shape |-> g.shape, v |-> g.X]]
  ELSE IF Len(lat.shape) = 2 /\ Len(lon.shape) = 2
    THEN [lat |-> lat, lon |-> lon]
  ELSE [lat |-> IF Len(lat.shape) = 1 /\ Len(pshape) = 2
                  THEN TileCols(lat, pshape[2]) ELSE lat,
        lon |-> IF Len(lon.shape) = 1 /\ Len(pshape) = 2
                  THEN TileRows(lon, pshape[1]) ELSE lon]

\* An array without elements.
Empty(shape) == \E i \in 1..Len(shape) : shape[i] = 0

\* ax.pcolormesh(X, Y, C, shading='auto') draws: C is 2D and X and Y have its
\* shape (or one more along each dimension).
PcolormeshOk(xshape, yshape, cshape) ==
  /\ Len(cshape) = 2
  /\ xshape = yshape
  /\ \/ xshape = cshape
     \/ Len(xshape) = 2 /\ xshape[1] = cshape[1] + 1 /\ xshape[2] = cshape[2] + 1

\* ax.contourf(X, Y, Z) draws: Z is 2D and at least 2 x 2, X and Y are both 2D
\* of the shape of Z or both 1D of lengths Z.shape[1] and Z.shape[0].
ContourfOk(xshape, yshape, zshape) ==
  /\ Len(zshape) = 2
  /\ zshape[1] >= 2 /\ zshape[2] >= 2
  /\ Len(xshape) = Len(yshape)
  /\ \/ Len(xshape) = 2 /\ xshape = zshape /\ yshape = zshape
     \/ Len(xshape) = 1 /\ xshape[1] = zshape[2] /\ yshape[1] = zshape[1]

\* DrawPath making the mesh call always; C18_MismatchAtDraw does not hold of it.
DrawPathMesh(pshape, latshape) == "pcolormesh"

\* Line 255: the draw call chosen.
DrawPath(pshape, latshape) ==
  IF pshape = latshape THEN "pcolormesh" ELSE "contourf"

\* Mask with <=; C20_Markers does not hold of it.
MaskLe(p, thr) ==
  {<<i, j>> \in (1..p.shape[1]) \X (1..p.shape[2]) : p.v[i][j] <= thr}

\* Line 280: mask = pdata_2d < p_threshold, as the positions it holds at.
Mask(p, thr) ==
  {<<i, j>> \in (1..p.shape[1]) \X (1..p.shape[2]) : p.v[i][j] < thr}

\* The values a p-value field of a given 2D shape is drawn from, by pattern k.
PField(k, shape) ==
  [shape |-> shape,
   v |-> [i \in 1..shape[1] |-> [j \in 1..shape[2] |-> (i * k + j) % (MaxDeg + 1)]]]

\* The locals of lines 85-297 before the sidebar is read; {} stands for None
\* or for a name not yet bound.
PipeIdle ==
  [ pc           |-> "idle",
    region       |-> [lat_min |-> 0, lat_max |-> 0, lon_min |-> 0, lon_max |-> 0],
    coords       |-> {},        \* data.coords
    lat_var      |-> {},
    lon_var      |-> {},
    data         |-> NoGrid,    \* the grid of data
    subset       |-> NoGrid,    \* the grid of subset
    all_vars     |-> <<>>,      \* data.data_vars
    spatial_vars |-> <<>>,      \* the names offered by the two selectboxes
    main_var     |-> {},
    pvalue_var   |-> NoneOption,
    main_data    |-> NoArray,
    processed    |-> {},        \* processed_data.shape
    lat          |-> Arr1(<<>>),
    lon          |-> Arr1(<<>>),
    extent       |-> {},        \* the region given to ax.set_extent
    path         |-> "none",    \* the draw call made: pcolormesh, contourf
    pdata        |-> {},
    pdata_2d     |-> {},
    p_threshold  |-> 0,
    marks        |-> {},        \* the positions given to ax.scatter
    msgs         |-> {} ]       \* the messages shown

\* --------------------------------------------- lines 47-64: process_data
\* The element values of the arrays given to process_data range over 0..MaxVal.
MaxVal == 2
Vals == 0..MaxVal

\* date(1970, 1, 1).toordinal(): the ordinal of the day a datetime64 counts from.
EpochOrdinal == 719163
\* A datetime64 value is counted here in half days since 1970-01-01.
StampsPerDay == 2
\* st.number_input("Scale factor", value=40.0, step=1.0)
ScaleDefault == 40
\* The scale factors tried.
Scales == {0 - 1, 0, 1, ScaleDefault}

\* dtype.kind: signed, unsigned, float, complex, datetime64, timedelta64, bool,
\* unicode string, object.
Kinds == {"i", "u", "f", "c", "M", "m", "b", "U", "O"}

\* Shapes of rank 0, 1 and 2.
Shapes == {<<>>, <<2>>, <<1, 2>>, <<2, 1>>}

\* The number of elements of an array of a shape.
Size(shape) ==
  IF Len(shape) = 0 THEN 1
  ELSE IF Len(shape) = 1 THEN shape[1] ELSE shape[1] * shape[2]

\* The values an element of a kind takes: a complex number is <<re, im>>.
Elements(kind) == IF kind = "c" THEN Vals \X Vals ELSE Vals

\* An array: its dtype kind, its shape and its elements in row-major order.
Arrays ==
  UNION { [kind : {k}, shape : {sh}, flat : [1..Size(sh) -> Elements(k)]] :
            <<k, sh>> \in Kinds \X Shapes }

\* Times ignoring the factor given for the default of the signature.
TimesDefault(kind, x, s) ==
  IF kind = "c" THEN <<x[1] * ScaleDefault, x[2] * ScaleDefault>> ELSE x * ScaleDefault

\* Line 59: an element times the scale factor.
Times(kind, x, s) == IF kind = "c" THEN <<x[1] * s, x[2] * s>> ELSE x * s

\* Line 62: pd.Timestamp(t).toordinal(), the proleptic Gregorian ordinal of the
\* day of t, the time of day dropped.
Ordinal(t) == EpochOrdinal + (t \div StampsPerDay)

\* process_data, lines 56-64, by what it returns and raises.  The list
\* comprehension of line 62 walks the first axis: of a 1D array it makes one
\* ordinal for each element; a 0-d array cannot be iterated and the rows of a 2D
\* array are arrays, which pd.Timestamp refuses, TypeError in both cases.
process_values(a, s) ==
  IF is_numeric(a)
  THEN [out |-> {[shape |-> a.shape,
                  flat |-> [i \in 1..Size(a.shape) |-> Times(a.kind, a.flat[i], s)]]},
        warned |-> FALSE, raised |-> "none"]
  ELSE IF is_datetime(a)
  THEN IF Len(a.shape) = 1
       THEN [out |-> {[shape |-> a.shape,
                       flat |-> [i \in 1..Size(a.shape) |-> Ordinal(a.flat[i])]]},
             warned |-> TRUE, raised |-> "none"]
       ELSE [out |-> {}, warned |-> TRUE, raised |-> "TypeError"]
  ELSE [out |-> {}, warned |-> FALSE, raised |-> "ValueError"]

\* No call of process_data yet.
NormIdle ==
  [ pc     |-> "idle",
    a      |-> [kind |-> "f", shape |-> <<>>, flat |-> <<0>>],   \* data_array
    s      |-> ScaleDefault,                                      \* scale_factor
    out    |-> {},         \* {} or {the array returned}
    warned |-> FALSE,      \* st.warning was called
    raised |-> "none" ]    \* the exception raised

\* ------------------------------------ contract_en.py: replace_placeholder
\* The paragraphs tried have up to MaxText characters.
MaxText == 4

\* The characters of a paragraph, and a placeholder of the dictionary of lines
\* 114-131 written with them ("{{name}}" in short).
Alphabet == {"a", "{", "n", "}"}
Placeholder == <<"{", "n", "}">>

\* The values typed into the form: nothing, or a text of another length than
\* the placeholder.
FormValues == {<<>>, <<"V", "W">>}

\* The texts of the paragraphs of template.docx.
Texts == UNION { [1..n -> Alphabet] : n \in 1..MaxText }

\* paragraph.runs for a text cut after the positions in cuts: the texts of the
\* runs, in order, from position from on.
RECURSIVE RunsFrom(_, _, _)
RunsFrom(text, cuts, from) ==
  IF from > Len(text) THEN <<>>
  ELSE LET later == {c \in cuts : c >= from}
           to == IF later = {} THEN Len(text)
                 ELSE CHOOSE c \in later : \A d \in later : c <= d
       IN  <<SubSeq(text, from, to)>> \o RunsFrom(text, cuts, to + 1)

\* ''.join(run.text for run in runs), from run i on.
RECURSIVE JoinFrom(_, _)
JoinFrom(rs, i) == IF i > Len(rs) THEN <<>> ELSE rs[i] \o JoinFrom(rs, i + 1)
Join(rs) == JoinFrom(rs, 1)

\* text.find(key): the least index, counted from 0, at which key starts in
\* text, -1 when there is none.
Find(key, text) ==
  LET at == {p \in 0..(Len(text) - Len(key)) : SubSeq(text, p + 1, p + Len(key)) = key}
  IN  IF at = {} THEN 0 - 1 ELSE CHOOSE p \in at : \A q \in at : p <= q

\* s[from:], from counted from 0.
Tail0(s, from) == SubSeq(s, from + 1, Len(s))
\* s[:to], to counted from 0.
Head0(s, to) == SubSeq(s, 1, to)

\* The runs a paragraph gets by paragraph.add_run and copy_run_formatting:
\* the text, and the run whose formatting it carries.
NewRun(text, i) == [text |-> text, fmt |-> i]

\* Lines 27-64: the runs added to the paragraph for run i of the old ones, which
\* starts at current_idx in the text.
OneRun(rs, i, current_idx, start_idx, end_idx, key, value) ==
  LET run_text == rs[i]
      run_end == current_idx + Len(run_text)
  IN  IF run_end <= start_idx
      THEN \* Case 1, lines 31-33
           <<NewRun(run_text, i)>>
      ELSE IF current_idx <= start_idx /\ start_idx < run_end
      THEN \* Case 2, lines 36-52
           LET post_start == start_idx - current_idx + Len(key)
           IN  (IF current_idx < start_idx
                THEN <<NewRun(Head0(run_text, start_idx - current_idx), i)>> ELSE <<>>)
               \o <<NewRun(value, i)>>
               \o (IF post_start < Len(run_text)
                   THEN <<NewRun(Tail0(run_text, post_start), i)>> ELSE <<>>)
      ELSE IF start_idx < current_idx /\ current_idx < end_idx
      THEN \* Case 3, lines 55-56
           <<>>
      ELSE \* Case 4, lines 59-64
           LET suffix_start == IF end_idx - current_idx > 0 THEN end_idx - current_idx ELSE 0
               suffix == Tail0(run_text, suffix_start)
           IN  IF suffix # <<>> THEN <<NewRun(suffix, i)>> ELSE <<>>

\* No call of replace_placeholder yet.
DocIdle ==
  [ pc          |-> "idle",
    runs        |-> <<>>,       \* the texts of paragraph.runs at the call
    key         |-> Placeholder,
    value       |-> <<>>,
    start_idx   |-> 0 - 1,
    end_idx     |-> 0 - 1,
    current_idx |-> 0,
    i           |-> 0,          \* the run the loop of line 26 is at
    para        |-> <<>> ]      \* the runs of the paragraph now

\* ------------------------------- the plotting scripts: inputs and functions
\* The scripts that take an upload, by file name.
Scripts ==
  {"app", "clim_app2", "clim_plot", "plot_pre_trends", "plot_bars_v2",
   "mosaic_plot", "mosaic3_plot", "plot_regions", "netcdf_visualizer2"}

\* The scripts that read a CSV with a Year column.
CsvScripts ==
  {"clim_app2", "clim_plot", "plot_pre_trends", "plot_bars_v2",
   "mosaic_plot", "mosaic3_plot"}
MosaicScripts == {"mosaic_plot", "mosaic3_plot"}
NetcdfScripts == {"plot_regions", "netcdf_visualizer2"}

\* The scripts that build example_data for the example download on every run.
WithExample == {"clim_app2", "clim_plot", "plot_pre_trends", "plot_bars_v2"}

\* A rational number is <<numerator, denominator>> in lowest terms, the
\* denominator positive.
RECURSIVE Gcd(_, _)
Gcd(a, b) == IF b = 0 THEN a ELSE Gcd(b, a % b)
Abs(x) == IF x < 0 THEN 0 - x ELSE x
Q(n, d) == LET g == Gcd(Abs(n), d) IN <<n \div g, d \div g>>
QInt(k) == <<k, 1>>
QAdd(a, b) == Q(a[1] * b[2] + b[1] * a[2], a[2] * b[2])
QSub(a, b) == Q(a[1] * b[2] - b[1] * a[2], a[2] * b[2])
QNeg(a) == <<0 - a[1], a[2]>>
QAbs(a) == <<Abs(a[1]), a[2]>>
QLt(a, b) == a[1] * b[2] < b[1] * a[2]
QMax(a, b) == IF QLt(a, b) THEN b ELSE a
RECURSIVE QSumFrom(_, _)
QSumFrom(qs, i) == IF i > Len(qs) THEN QInt(0) ELSE QAdd(qs[i], QSumFrom(qs, i + 1))
QSum(qs) == QSumFrom(qs, 1)
\* Series.mean() and np.nanmean of values without gaps.
QMean(qs) == LET s == QSum(qs) IN Q(s[1], s[2] * Len(qs))
\* Series.min(), Series.max(), np.nanmin, np.nanmax over a set of rationals.
QMin(S) == CHOOSE a \in S : \A b \in S : ~QLt(b, a)
QMaxOf(S) == CHOOSE a \in S : \A b \in S : ~QLt(a, b)

Months ==
  <<"Jan", "Feb", "Mar", "Apr", "May", "Jun",
    "Jul", "Aug", "Sep", "Oct", "Nov", "Dec">>

\* The uploaded CSV files, as pd.read_csv returns them: the columns and the
\* rows in the order of the file.
Tables ==
  << [cols |-> <<"Year", "Temperature">>,
      rows |-> << <<2001, 12>>, <<2000, 10>>, <<2002, 11>> >>],
     [cols |-> <<"Year", "Temperature">>,
      rows |-> << <<2000, 5>>, <<2001, 5>> >>],
     [cols |-> <<"Year">>,
      rows |-> << <<2000>>, <<2001>> >>],
     [cols |-> <<"Temperature">>,
      rows |-> << <<10>>, <<12>> >>],
     [cols |-> <<"Year", "Rain", "Temperature">>,
      rows |-> << <<2000, 4, 1>>, <<2000, 0, 2>>, <<1999, 1, 3>> >>],
     [cols |-> <<"Year">> \o Months,
      rows |-> << <<2001, 3, 1, 4, 1, 5, 9, 2, 6, 5, 3, 5, 8>>,
                  <<2000, 1, 1, 2, 3, 5, 8, 2, 6, 5, 3, 4, 8>> >>],
     [cols |-> <<"Year">> \o Months,
      rows |-> << <<2000, 1, 2, 3, 4, 5, 6, 7, 8, 9, 10, 11, 12>>,
                  <<2001, 1, 2, 3, 4, 5, 6, 7, 8, 9, 10, 11, 12>> >>],
     [cols |-> <<"Year", "Month", "Day", "Temperature">>,
      rows |-> << <<2000, 1, 2, 7>>, <<2000, 1, 1, 5>> >>] >>

NoTable == [cols |-> <<>>, rows |-> <<>>]

\* The manual colour ranges typed (color_min, color_max): the default, one
\* that does not hold 0, one in the wrong order.
ColorRanges == { <<0 - 2, 2>>, <<1, 2>>, <<2, 0 - 2>> }

\* st.radio("Choose Plot", ...): mosaic3_plot.py 28-31, mosaic_plot.py 30-33.
PlotTypes(script) ==
  IF script = "mosaic3_plot" THEN {"Stripes", "Bars", "Mosaic", "Seasonal Mosaic"}
  ELSE IF script = "mosaic_plot"
  THEN {"Stripes", "Bars", "Mosaic", "Interactive Mosaic", "Seasonal Mosaic"}
  ELSE {"none"}

FileFormats == {"PNG", "SVG", "PDF"}

\* name in df.columns, and the position of the column.
HasCol(t, name) == \E k \in 1..Len(t.cols) : t.cols[k] = name
ColIndex(t, name) == CHOOSE k \in 1..Len(t.cols) : t.cols[k] = name
\* df[name] over rows.
Column(t, rows, name) == [i \in 1..Len(rows) |-> rows[i][ColIndex(t, name)]]
\* [col for col in df.columns if col != 'Year']
OtherCols(t) == Pick(t.cols, {k \in 1..Len(t.cols) : t.cols[k] # "Year"})

\* df.sort_values('Year').reset_index(drop=True): the rows in ascending order
\* of Year; the default sort is not stable, so rows of the same Year come in
\* any order.
SortedByYear(t) ==
  LET n == Len(t.rows)
      y == ColIndex(t, "Year")
      perms == {p \in [1..n -> 1..n] : \A i, j \in 1..n : i # j => p[i] # p[j]}
  IN  { [i \in 1..n |-> t.rows[p[i]]] :
          p \in {q \in perms : \A i, j \in 1..n :
                                 i < j => t.rows[q[i]][y] <= t.rows[q[j]][y]} }

\* The series drawn without the mean taken off; C24_BarAnomalies does not
\* hold of it.
AnomalyRaw(values) == [i \in 1..Len(values) |-> <<values[i], 1>>]

\* df[parameter] - df[parameter].mean()
Anomaly(values) ==
  LET q == [i \in 1..Len(values) |-> QInt(values[i])]
  IN  [i \in 1..Len(values) |-> QSub(q[i], QMean(q))]

\* Lines 144-148 of mosaic3_plot.py: data_matrix - np.nanmean(data_matrix,
\* axis=0), a row for each year and a column for each month.
MonthlyAnomaly(t, rows) ==
  LET col(m) == Anomaly(Column(t, rows, OtherCols(t)[m]))
  IN  [i \in 1..Len(rows) |-> [m \in 1..12 |-> col(m)[i]]]

\* Lines 150-164: the mean of the anomalies of each season (DJF, MAM, JJA,
\* SON, months counted from 0), a column for each season.
Seasons == << <<11, 0, 1>>, <<2, 3, 4>>, <<5, 6, 7>>, <<8, 9, 10>> >>
Seasonal(anomaly) ==
  [i \in 1..Len(anomaly) |->
     [s \in 1..4 |-> QMean([k \in 1..3 |-> anomaly[i][Seasons[s][k] + 1]])]]

\* anomaly[:, ::-1]
Reversed(anomaly) ==
  [i \in 1..Len(anomaly) |->
     [m \in 1..Len(anomaly[i]) |-> anomaly[i][Len(anomaly[i]) + 1 - m]]]

\* The values of a series or of a matrix.
SeriesValues(series) == {series[i] : i \in 1..Len(series)}
MatrixValues(matrix) == UNION {SeriesValues(matrix[i]) : i \in 1..Len(matrix)}

\* mosaic3_plot.py 90-98 and 174-182: the range from the smallest to the
\* largest value, made symmetric by auto_center, replaced by the manual range.
ColorRange(values, auto_center, set_color_range, manual) ==
  LET lo == QMin(values)
      hi == QMaxOf(values)
      max_abs == QMax(QAbs(lo), QAbs(hi))
      centred == IF auto_center THEN <<QNeg(max_abs), max_abs>> ELSE <<lo, hi>>
  IN  IF set_color_range THEN <<QInt(manual[1]), QInt(manual[2])>> ELSE centred

\* TwoSlopeNorm(vmin, vcenter=0, vmax) raises ValueError unless
\* vmin < vcenter < vmax.
TwoSlopeOk(vmin, vmax) == QLt(vmin, QInt(0)) /\ QLt(QInt(0), vmax)
\* Normalize(vmin, vmax) raises ValueError when called with vmin > vmax.
NormalizeOk(vmin, vmax) == ~QLt(vmax, vmin)

\* file_format.lower(), and the file_ext of the if chains.
Ext(file_format) ==
  IF file_format = "PNG" THEN "png" ELSE IF file_format = "SVG" THEN "svg" ELSE "pdf"

\* FileName made of the stem, the year range and the extension by every
\* script; C26_NameByScript does not hold of it.
FileNameUniform(script, stem, parameter, min_max, file_format) ==
  [stem |-> stem, param |-> {}, years |-> min_max, ext |-> Ext(file_format)]

\* The file_name of the image download, by its parts:
\*   clim_app2.py 152      f"{custom_filename}_{min_year}-{max_year}.{file_ext}"
\*   clim_plot.py 161, plot_bars_v2.py 169, plot_pre_trends.py 129
\*                         f"{custom_filename}_{parameter}_{min_year}-{max_year}.{file_ext}"
\*   mosaic3_plot.py 242, mosaic_plot.py
\*                         f"climate_plot.{file_format.lower()}"
\*   netcdf_visualizer2.py 301, plot_regions.py 173
\*                         f"{output_name}.png"
FileName(script, stem, parameter, min_max, file_format) ==
  IF script = "clim_app2"
  THEN [stem |-> stem, param |-> {}, years |-> min_max, ext |-> Ext(file_format)]
  ELSE IF script \in {"clim_plot", "plot_bars_v2", "plot_pre_trends"}
  THEN [stem |-> stem, param |-> parameter, years |-> min_max, ext |-> Ext(file_format)]
  ELSE IF script \in MosaicScripts
  THEN [stem |-> "climate_plot", param |-> {}, years |-> {}, ext |-> Ext(file_format)]
  ELSE [stem |-> stem, param |-> {}, years |-> {}, ext |-> "png"]

\* A script before its run.
AppIdle ==
  [ pc              |-> "idle",
    script          |-> "app",
    uploaded        |-> FALSE,      \* uploaded_file is not None
    table           |-> NoTable,    \* what pd.read_csv returns
    opens           |-> FALSE,      \* xr.open_dataset returns and the map is drawn
    save            |-> FALSE,      \* st.button("Save Plot")
    plot_type       |-> "none",
    auto_center     |-> FALSE,
    set_color_range |-> FALSE,
    manual          |-> <<0 - 2, 2>>,    \* color_min, color_max
    file_format     |-> "PNG",
    stem            |-> "climate",  \* custom_filename, output_name, output_file
    example         |-> FALSE,      \* example_data was built
    read            |-> FALSE,      \* the upload was read
    computed        |-> FALSE,      \* a statement on df was executed
    parameter       |-> {},         \* {} (None) or {the column selected}
    df              |-> <<>>,       \* the rows after the sort
    min_max         |-> {},         \* {<<min_year, max_year>>}
    series          |-> <<>>,       \* the values drawn, a rational for each row
    matrix          |-> <<>>,       \* the anomalies of the mosaic
    norm            |-> {},         \* {[kind, vmin, vmax]}: the arguments of the norm
    bars            |-> {},         \* {the bars of ax.bar, [x, height] each}
    plotted         |-> FALSE,      \* st.pyplot or st.plotly_chart was called
    download        |-> {},         \* {the file_name of the image download}
    msgs            |-> {},         \* st.error, st.info and st.markdown prompts
    outcome         |-> "running" ]

Init ==
  /\ clock = StartClock
  /\ locking \in BOOLEAN
  /\ files = Leftovers
  /\ removed = {}
  /\ runs = 0
  /\ ses = [s \in Sessions |-> Fresh]
  /\ pipe = PipeIdle
  /\ norm = NormIdle
  /\ doc = DocIdle
  /\ app = AppIdle

\* ----------------------------------------------------------------- helpers
Names == DOMAIN files

\* int(time.time())
Second(t) == t \div TicksPerSec

\* Seconds as clock ticks.
Ticks(sec) == sec * TicksPerSec

\* A Dataset opened from the file is still referenced by a running script.
HeldOpen(f) == \E t \in Sessions : ses[t].data # {} /\ ses[t].temp_path = f

\* The platform refuses os.remove and open(.., "wb") with PermissionError.
Locked(f) == locking /\ HeldOpen(f)

\* The directory after os.remove(f).
Drop(f) == [g \in Names \ {f} |-> files[g]]

\* The readings the clock can give next.
Readings == clock .. (StartClock + MaxTicks)

\* ScratchWrite leaving a second file beside f; C10_AtMostOne does not hold of it.
ScratchWriteTwice(f, content, r, t) ==
  [g \in Names \cup {f, f + 1} |->
     IF g \in {f, f + 1} THEN [mtime |-> t, content |-> content, owner |-> r]
     ELSE files[g]]

\* The directory after open(f, "wb") and f.write(content) by script run r at
\* time t.
ScratchWrite(f, content, r, t) ==
  [g \in Names \cup {f} |->
     IF g = f THEN [mtime |-> t, content |-> content, owner |-> r] ELSE files[g]]

Set(s, r) == ses' = [ses EXCEPT ![s] = r]

\* file_age > 3600, the age in ticks
Expired(age) == age > Ticks(MaxAge)

\* Backoff without the factor (i + 1); C7_SafeRemove does not hold of it.
BackoffFlat(i) == TicksPerSec \div 2

\* time.sleep(0.5 * (i + 1)), in ticks
Backoff(i) == ((i + 1) * TicksPerSec) \div 2

\* temp_upload_<int(time.time())>.nc
ScratchName(t) == Second(t)

\* Directory entries open(f, "wb") makes: none when f exists (it is truncated).
Made(f) == IF f \in Names THEN 0 ELSE 1

\* NextEngine walking the list from its end; C1_EngineOrder does not hold of it.
NextEngineReversed(tried) == engines[Len(engines) - Len(tried)]

\* The engine of the next pass of "for engine in engines".
NextEngine(tried) == engines[Len(tried) + 1]

\* xr.open_dataset(temp_path, engine=e) returns a Dataset.
Opens(f, e) == f \in Names /\ e \in files[f].content

\* A loop that fails silently; C2_WarningCount does not hold of it.
WarnNone(w) == w

\* st.warning(f"{engine} engine failed: ...")
Warn(w) == w + 1

\* ----------------------------------------------------------------- actions
\* SweepBegin visiting one file a call; C9_SameClock does not hold of it.
SweepBeginOneFile(r, site, t) ==
  [r EXCEPT !.pc = "sw_loop", !.site = site, !.sweep = @ + 1, !.now = t,
            !.listing = IF Names = {} THEN {} ELSE {CHOOSE f \in Names : TRUE},
            !.cur = -1, !.failed = {}]

\* cleanup_temp_dir, lines 25-26: now = time.time(); os.listdir(TEMP_DIR).
SweepBegin(r, site, t) ==
  [r EXCEPT !.pc = "sw_loop", !.site = site, !.sweep = @ + 1, !.now = t,
            !.listing = Names, !.cur = -1, !.failed = {}]

\* AfterSidebar entering the sweep of line 141 without an upload;
\* C29_SweepFirst does not hold of it.
AfterSidebarAlways(r) == [r EXCEPT !.pc = "sweep", !.site = "upload"]

\* Lines 139-144 and 329-330 once the sidebar is done: a run without an upload
\* shows the prompt and ends; a run with one calls cleanup_temp_dir.
AfterSidebar(r) ==
  IF r.uploaded
    THEN [r EXCEPT !.pc = "sweep", !.site = "upload"]
    ELSE [r EXCEPT !.pc = "done", !.outcome = "prompt", !.site = "none"]

\* The statement after a call of cleanup_temp_dir: lines 126-139 after the
\* button's call (the first of two when a file is uploaded), line 144 after
\* the upload's.
AfterSweep(r) ==
  LET q == [r EXCEPT !.now = 0, !.failed = {}, !.cur = -1]
  IN  IF r.site = "button"
        THEN AfterSidebar([q EXCEPT !.first =
               IF r.uploaded THEN [now |-> r.now, dir |-> Names, failed |-> r.failed]
               ELSE NoFirst])
        ELSE [q EXCEPT !.pc = "name", !.site = "none", !.first = NoFirst, !.sweep = 0]

\* A script run starts: the widgets are read (file uploaded, button pressed).
Start(s) ==
  /\ ses[s].pc = "idle"
  /\ runs < MaxRuns
  /\ runs' = runs + 1
  /\ \E up \in BOOLEAN, btn \in BOOLEAN :
       LET r == [Fresh EXCEPT !.run = ses[s].run + 1, !.uploaded = up]
       IN  Set(s, IF btn THEN [r EXCEPT !.pc = "sweep", !.site = "button"]
                  ELSE AfterSidebar(r))
  /\ UNCHANGED <<norm, doc, app, pipe, clock, locking, files, removed>>

\* cleanup_temp_dir is called (line 125 or line 141).
SweepStart(s) ==
  /\ ses[s].pc = "sweep"
  /\ \E t \in Readings :
       /\ clock' = t
       /\ Set(s, SweepBegin(ses[s], ses[s].site, t))
  /\ UNCHANGED <<norm, doc, app, pipe, locking, files, removed, runs>>

\* cleanup_temp_dir, lines 26-28: the next filename (os.listdir orders them
\* arbitrarily) and os.path.isfile; the call returns when none is left.
SweepIsFile(s) ==
  /\ ses[s].pc = "sw_loop"
  /\ IF ses[s].listing = {}
       THEN Set(s, AfterSweep(ses[s]))
       ELSE \E f \in ses[s].listing :
              Set(s, [ses[s] EXCEPT !.listing = @ \ {f},
                                    !.cur = IF f \in Names THEN f ELSE -1,
                                    !.pc = IF f \in Names THEN "sw_mtime" ELSE "sw_loop"])
  /\ UNCHANGED <<norm, doc, app, pipe, clock, locking, files, removed, runs>>

\* cleanup_temp_dir, lines 29-30: os.path.getmtime and the age test.  getmtime
\* of a file removed since isfile raises FileNotFoundError, which nothing
\* catches (lines 125 and 141 are outside every try): the run ends there.
SweepMtime(s) ==
  /\ ses[s].pc = "sw_mtime"
  /\ LET f == ses[s].cur IN
       IF f \notin Names
         THEN Set(s, [ses[s] EXCEPT !.pc = "done", !.outcome = "uncaught"])
       ELSE IF Expired(ses[s].now - files[f].mtime)
         THEN Set(s, [ses[s] EXCEPT !.pc = "sw_rm"])
       ELSE Set(s, [ses[s] EXCEPT !.pc = "sw_loop", !.cur = -1])
  /\ UNCHANGED <<norm, doc, app, pipe, clock, locking, files, removed, runs>>

\* cleanup_temp_dir, lines 31-34: os.remove, any exception swallowed.
SweepRemove(s) ==
  /\ ses[s].pc = "sw_rm"
  /\ LET f == ses[s].cur IN
       IF f \in Names /\ ~Locked(f)
         THEN /\ files' = Drop(f)
              /\ removed' = removed \cup {f}
              /\ Set(s, [ses[s] EXCEPT !.pc = "sw_loop", !.cur = -1])
         ELSE /\ Set(s, [ses[s] EXCEPT !.pc = "sw_loop", !.cur = -1,
                                       !.failed = @ \cup {f}])
              /\ UNCHANGED <<files, removed>>
  /\ UNCHANGED <<norm, doc, app, pipe, clock, locking, runs>>

\* Line 144: temp_path is named by the second of the clock.
ChooseName(s) ==
  /\ ses[s].pc = "name"
  /\ \E t \in Readings :
       /\ clock' = t
       /\ Set(s, [ses[s] EXCEPT !.pc = "write", !.temp_path = ScratchName(t)])
  /\ UNCHANGED <<norm, doc, app, pipe, locking, files, removed, runs>>

\* Lines 148-149: open(temp_path, "wb") creates or truncates the file and the
\* uploaded bytes are written to it.
WriteOk(s) ==
  /\ ses[s].pc = "write"
  /\ ~Locked(ses[s].temp_path)
  /\ \E c \in Contents, t \in Readings :
       /\ clock' = t
       /\ files' = ScratchWrite(ses[s].temp_path, c, <<s, ses[s].run>>, t)
  /\ Set(s, [ses[s] EXCEPT !.pc = "open", !.created = @ + Made(ses[s].temp_path)])
  /\ UNCHANGED <<norm, doc, app, pipe, locking, removed, runs>>

\* Lines 148-149 raise, in open (no file is made) or in write (the file is
\* left without the upload): the handler of line 318 reports a file error.
WriteFail(s) ==
  /\ ses[s].pc = "write"
  /\ \/ /\ UNCHANGED <<clock, files>>
        /\ Set(s, [ses[s] EXCEPT !.pc = "fin", !.outcome = "file_error"])
     \/ /\ ~Locked(ses[s].temp_path)
        /\ \E t \in Readings :
             /\ clock' = t
             /\ files' = ScratchWrite(ses[s].temp_path, {}, <<s, ses[s].run>>, t)
        /\ Set(s, [ses[s] EXCEPT !.pc = "fin", !.outcome = "file_error",
                                 !.created = @ + Made(ses[s].temp_path)])
  /\ UNCHANGED <<norm, doc, app, pipe, locking, removed, runs>>

\* Lines 154-164: one pass of the engine loop.  The first engine that opens
\* the file ends the loop; a failure is reported by st.warning; after the last
\* failure st.error and st.stop end the run.
OpenAttempt(s) ==
  /\ ses[s].pc = "open"
  /\ LET r == ses[s]
         e == NextEngine(r.tried)
         last == Len(r.tried) + 1 = Len(engines)
     IN  IF Opens(r.temp_path, e)
           THEN Set(s, [r EXCEPT !.tried = Append(@, e), !.data = {e}, !.pc = "loaded"])
           ELSE Set(s, [r EXCEPT !.tried = Append(@, e),
                                 !.warnings = Warn(@),
                                 !.pc = IF last THEN "fin" ELSE "open",
                                 !.outcome = IF last THEN "unreadable" ELSE @])
  /\ UNCHANGED <<norm, doc, app, pipe, clock, locking, files, removed, runs>>

\* Lines 166-316 on the open Dataset.  Without a latitude and a longitude
\* coordinate st.error and st.stop end the run (179-181); else the data is
\* subset and drawn: process_data raises on an unsupported type (handled at
\* line 311), a failing draw call is reported and st.stop ends the run
\* (265-267), else the figure is shown.
Pipeline(s) ==
  /\ ses[s].pc = "loaded"
  /\ \E coords \in BOOLEAN, numeric \in BOOLEAN, drawable \in BOOLEAN :
       Set(s, [ses[s] EXCEPT
                 !.pc = "fin",
                 !.stage = IF coords THEN "render" ELSE "probe",
                 !.outcome = IF ~coords THEN "missing_coords"
                             ELSE IF ~numeric \/ ~drawable THEN "plot_error"
                             ELSE "rendered"])
  /\ UNCHANGED <<norm, doc, app, pipe, clock, locking, files, removed, runs>>

\* OnStop leaving the script without the finally; C6_CleanupAlways does not
\* hold of it.
OnStopSkipsFinally(r) == [r EXCEPT !.pc = "done", !.outcome = "stopped"]

\* A script-control exception (st.stop, or the user stopping the run, raised
\* by the next st call) passes "except Exception" and reaches the finally.
OnStop(r) == [r EXCEPT !.pc = "fin", !.outcome = "stopped"]

\* The user stops or reruns the script while it is inside the try.
UserStop(s) ==
  /\ \/ ses[s].pc = "open" /\ ses[s].tried # <<>>
     \/ ses[s].pc = "loaded"
  /\ Set(s, OnStop(ses[s]))
  /\ UNCHANGED <<norm, doc, app, pipe, clock, locking, files, removed, runs>>

\* Lines 320-325: finally; if os.path.exists(temp_path), time.sleep(2).
Finally(s) ==
  /\ ses[s].pc = "fin"
  /\ IF ses[s].temp_path \in Names
       THEN Set(s, [ses[s] EXCEPT !.pc = "rm", !.waited = Ticks(ExitDelay)])
       ELSE Set(s, [ses[s] EXCEPT !.pc = "done"])
  /\ UNCHANGED <<norm, doc, app, pipe, clock, locking, files, removed, runs>>

\* safe_remove, lines 38-45: one pass of the loop.  os.remove succeeds
\* (return True), raises PermissionError (sleep 0.5 * (i + 1), gc.collect, and
\* return False after the last pass) or raises another error, which leaves
\* safe_remove and is swallowed at line 327.
RemoveAttempt(s) ==
  /\ ses[s].pc = "rm"
  /\ ses[s].attempts < MaxTries
  /\ LET r == ses[s]
         f == r.temp_path
     IN  IF f \notin Names
           THEN /\ Set(s, [r EXCEPT !.pc = "done", !.attempts = @ + 1])
                /\ UNCHANGED <<files, removed>>
         ELSE IF Locked(f)
           THEN /\ Set(s, [r EXCEPT !.attempts = @ + 1,
                                    !.waited = Backoff(r.attempts),
                                    !.pc = IF r.attempts + 1 = MaxTries THEN "done" ELSE "rm",
                                    !.ret = IF r.attempts + 1 = MaxTries THEN "False" ELSE @])
                /\ UNCHANGED <<files, removed>>
         ELSE /\ files' = Drop(f)
              /\ removed' = removed \cup {f}
              /\ Set(s, [r EXCEPT !.pc = "done", !.attempts = @ + 1, !.ret = "True"])
  /\ UNCHANGED <<norm, doc, app, pipe, clock, locking, runs>>

\* The script run is over: its locals, the Dataset among them, are dropped.
End(s) ==
  /\ ses[s].pc = "done"
  /\ Set(s, [Fresh EXCEPT !.run = ses[s].run])
  /\ UNCHANGED <<norm, doc, app, pipe, clock, locking, files, removed, runs>>

Next ==
  \E s \in Sessions :
       \/ Start(s)
       \/ SweepStart(s)
       \/ SweepIsFile(s)
       \/ SweepMtime(s)
       \/ SweepRemove(s)
       \/ ChooseName(s)
       \/ WriteOk(s)
       \/ WriteFail(s)
       \/ OpenAttempt(s)
       \/ Pipeline(s)
       \/ UserStop(s)
       \/ Finally(s)
       \/ RemoveAttempt(s)
       \/ End(s)

Spec == Init /\ [][Next]_vars

\* ---------------------------------------- lines 85-297: one run, by stages
\* data[name]
Lookup(all_vars, name) ==
  all_vars[CHOOSE i \in 1..Len(all_vars) : all_vars[i].name = name]

\* A region with a bound pair in order and apart on both axes.
Proper(R) == R.lat_min < R.lat_max /\ R.lon_min < R.lon_max

\* The pipeline after a message is shown.
Say(p, m) == [p EXCEPT !.msgs = @ \cup {m}]

\* Lines 85-119: the sidebar is read; the four bounds are taken as entered.
PSidebar ==
  /\ pipe.pc = "idle"
  /\ \E R \in Regions : pipe' = [pipe EXCEPT !.pc = "probe", !.region = R]
  /\ UNCHANGED Rest

\* Lines 176-181: the coordinate names; without one of them st.error and
\* st.stop.
PProbe ==
  /\ pipe.pc = "probe"
  /\ \E coords \in CoordSets :
       LET lat_var == FirstOf(LatAliases, coords)
           lon_var == FirstOf(LonAliases, coords)
           p == [pipe EXCEPT !.coords = coords, !.lat_var = lat_var, !.lon_var = lon_var]
       IN  IF lat_var = {} \/ lon_var = {}
             THEN pipe' = [Say(p, "missing_coords") EXCEPT !.pc = "stopped"]
             ELSE pipe' = [p EXCEPT !.pc = "subset"]
  /\ UNCHANGED Rest

\* Lines 184-188: the dataset is subset to the region.
PSubset ==
  /\ pipe.pc = "subset"
  /\ \E k \in 1..Len(Grids) :
       pipe' = [pipe EXCEPT !.pc = "vars", !.data = Grid(Grids[k]),
                            !.subset = Where(Grid(Grids[k]), pipe.region)]
  /\ UNCHANGED Rest

\* Lines 190-213: the list of variables and the two selections; st.selectbox
\* gives None for an empty list.
PVars ==
  /\ pipe.pc = "vars"
  /\ \E all_vars \in DataVarSets :
       LET spatial_vars == SpatialVars(all_vars)
           names == {spatial_vars[i].name : i \in 1..Len(spatial_vars)}
           fallback == \A i \in 1..Len(all_vars) : ~Eligible(all_vars[i])
           p == [pipe EXCEPT !.pc = "reduce", !.all_vars = all_vars,
                             !.spatial_vars = [i \in 1..Len(spatial_vars) |->
                                                 spatial_vars[i].name]]
           q == IF fallback THEN Say(p, "no_spatial_vars") ELSE p
       IN  \E pvalue_var \in {NoneOption} \cup names :
             IF names = {}
               THEN pipe' = [q EXCEPT !.main_var = {}, !.pvalue_var = pvalue_var]
               ELSE \E main_var \in names :
                      pipe' = [q EXCEPT !.main_var = {main_var},
                                        !.pvalue_var = pvalue_var]
  /\ UNCHANGED Rest

\* The array subset[name].
SubsetVar(p, name) ==
  Variable(Lookup(p.all_vars, name), p.subset,
           YDim(p.data, CHOOSE x \in p.lat_var : TRUE),
           XDim(p.data, CHOOSE x \in p.lon_var : TRUE))

\* Lines 217-218: reduce_to_2d and process_data; what they raise is handled
\* at line 311 and the run goes on to its end.
PReduce ==
  /\ pipe.pc = "reduce"
  /\ IF pipe.main_var = {}
       THEN pipe' = [Say(pipe, "plot_error") EXCEPT !.pc = "failed"]
       ELSE LET main_data == reduce_to_2d(SubsetVar(pipe, CHOOSE x \in pipe.main_var : TRUE))
                processed == process_data(main_data)
                p == [pipe EXCEPT !.main_data = main_data, !.processed = processed]
            IN  IF processed = {}
                  THEN pipe' = [Say(p, "plot_error") EXCEPT !.pc = "failed"]
                  ELSE pipe' = [p EXCEPT !.pc = "grids"]
  /\ UNCHANGED Rest

\* processed_data.shape
PShape(p) == CHOOSE s \in p.processed : TRUE

\* Lines 221-234: the coordinates of the subset, made 2D.
PBroadcast ==
  /\ pipe.pc = "grids"
  /\ LET g == Broadcast(pipe.subset.lat, pipe.subset.lon, PShape(pipe))
     IN  pipe' = [pipe EXCEPT !.pc = "extent", !.lat = g.lat, !.lon = g.lon]
  /\ UNCHANGED Rest

\* Lines 237-251: the axes; ax.set_extent is given the four bounds as entered.
\* It draws a box for a proper region; for bounds out of order or equal it may
\* raise, which line 311 handles.
PExtent ==
  /\ pipe.pc = "extent"
  /\ \/ pipe' = [pipe EXCEPT !.pc = "draw", !.extent = {pipe.region}]
     \/ /\ ~Proper(pipe.region)
        /\ pipe' = [Say(pipe, "plot_error") EXCEPT !.pc = "failed",
                                                   !.extent = {pipe.region}]
  /\ UNCHANGED Rest

\* Lines 254-267: the draw call by the shapes; when it raises, st.error and
\* st.stop.  What pcolormesh does with arrays without elements is left open.
PDraw ==
  /\ pipe.pc = "draw"
  /\ LET path == DrawPath(PShape(pipe), pipe.lat.shape)
         draws == IF path = "pcolormesh"
                    THEN PcolormeshOk(pipe.lon.shape, pipe.lat.shape, PShape(pipe))
                    ELSE ContourfOk(pipe.lon.shape, pipe.lat.shape, PShape(pipe))
         p == IF path = "contourf" THEN Say(pipe, "using_contourf") ELSE pipe
     IN  \/ /\ draws
            /\ pipe' = [p EXCEPT !.pc = "markers", !.path = path]
         \/ /\ ~draws \/ (path = "pcolormesh" /\ Empty(PShape(pipe)))
            /\ pipe' = [Say(p, "plotting_failed") EXCEPT !.pc = "stopped", !.path = path]
  /\ UNCHANGED Rest

\* Lines 270-290: the markers.  Nothing is done without a p-value variable; a
\* field that is not numeric or not of the shape of processed_data is reported;
\* else the markers are scattered where mask holds, lon[mask] raising when
\* mask has not the shape of lon; an exception is reported at line 290.
PMarkers ==
  /\ pipe.pc = "markers"
  /\ IF pipe.pvalue_var = NoneOption
       THEN pipe' = [pipe EXCEPT !.pc = "finish"]
       ELSE LET pdata == reduce_to_2d(SubsetVar(pipe, pipe.pvalue_var))
                p == [pipe EXCEPT !.pc = "finish", !.pdata = {pdata}]
            IN  IF ~is_numeric(pdata)
                  THEN pipe' = Say(p, "p_not_numeric")
                ELSE IF pdata.shape # PShape(pipe)
                  THEN pipe' = Say(p, "p_shape_mismatch")
                ELSE \E k \in 0..1, thr \in Degrees :
                       LET pdata_2d == PField(k, pdata.shape)
                           q == [p EXCEPT !.pdata_2d = {pdata_2d}, !.p_threshold = thr]
                       IN  \/ /\ pipe.lon.shape = pdata.shape
                              /\ pipe' = [q EXCEPT !.marks = {Mask(pdata_2d, thr)}]
                           \/ pipe' = Say(q, "p_error")
  /\ UNCHANGED Rest

\* Lines 293-297: colorbar, title, st.pyplot.
PFinish ==
  /\ pipe.pc = "finish"
  /\ pipe' = [pipe EXCEPT !.pc = "shown"]
  /\ UNCHANGED Rest

PipeInit ==
  /\ clock = StartClock
  /\ locking = FALSE
  /\ files = Leftovers
  /\ removed = {}
  /\ runs = 0
  /\ ses = [s \in Sessions |-> Fresh]
  /\ pipe = PipeIdle
  /\ norm = NormIdle
  /\ doc = DocIdle
  /\ app = AppIdle

PipeNext ==
  \/ PSidebar
  \/ PProbe
  \/ PSubset
  \/ PVars
  \/ PReduce
  \/ PBroadcast
  \/ PExtent
  \/ PDraw
  \/ PMarkers
  \/ PFinish

PipeSpec == PipeInit /\ [][PipeNext]_vars

\* ------------------------------------------ process_data, call by call
\* The variables a call of process_data leaves alone.
NotNorm == <<clock, locking, files, removed, runs, ses, pipe, doc, app>>

\* process_data(data_array, scale_factor) is called.
NCall ==
  /\ norm.pc = "idle"
  /\ \E a \in Arrays, s \in Scales :
       norm' = [NormIdle EXCEPT !.pc = "called", !.a = a, !.s = s]
  /\ UNCHANGED NotNorm

\* Lines 58-59.
NNumeric ==
  /\ norm.pc = "called"
  /\ is_numeric(norm.a)
  /\ LET r == process_values(norm.a, norm.s)
     IN  norm' = [norm EXCEPT !.pc = "returned", !.out = r.out]
  /\ UNCHANGED NotNorm

\* Lines 60-62.
NDatetime ==
  /\ norm.pc = "called"
  /\ ~is_numeric(norm.a) /\ is_datetime(norm.a)
  /\ LET r == process_values(norm.a, norm.s)
     IN  norm' = [norm EXCEPT !.pc = IF r.out = {} THEN "raised" ELSE "returned",
                              !.out = r.out, !.warned = r.warned, !.raised = r.raised]
  /\ UNCHANGED NotNorm

\* Lines 63-64.
NUnsupported ==
  /\ norm.pc = "called"
  /\ ~is_numeric(norm.a) /\ ~is_datetime(norm.a)
  /\ LET r == process_values(norm.a, norm.s)
     IN  norm' = [norm EXCEPT !.pc = "raised", !.raised = r.raised]
  /\ UNCHANGED NotNorm

NormInit ==
  /\ clock = StartClock
  /\ locking = FALSE
  /\ files = Leftovers
  /\ removed = {}
  /\ runs = 0
  /\ ses = [s \in Sessions |-> Fresh]
  /\ pipe = PipeIdle
  /\ norm = NormIdle
  /\ doc = DocIdle
  /\ app = AppIdle

NormNext ==
  \/ NCall
  \/ NNumeric
  \/ NDatetime
  \/ NUnsupported

NormSpec == NormInit /\ [][NormNext]_vars

\* -------------------------------- replace_placeholder, statement by statement
\* The variables a call of replace_placeholder leaves alone.
NotDoc == <<clock, locking, files, removed, runs, ses, pipe, norm, app>>

\* Lines 134-136: replace_placeholder(paragraph, key, value) is called.
DCall ==
  /\ doc.pc = "idle"
  /\ \E text \in Texts, value \in FormValues :
       \E cuts \in SUBSET (1..(Len(text) - 1)) :
         LET runs_ == RunsFrom(text, cuts, 1)
         IN  doc' = [DocIdle EXCEPT !.pc = "called", !.runs = runs_, !.value = value,
                                    !.para = [i \in 1..Len(runs_) |-> NewRun(runs_[i], i)]]
  /\ UNCHANGED NotDoc

\* Lines 8-9 and 15-16: the key is not in the text.
DAbsent ==
  /\ doc.pc = "called"
  /\ ~Contains(doc.key, Join(doc.runs))
  /\ doc' = [doc EXCEPT !.pc = "returned"]
  /\ UNCHANGED NotDoc

\* Lines 12-24: the key is found and the paragraph cleared.
DClear ==
  /\ doc.pc = "called"
  /\ Contains(doc.key, Join(doc.runs))
  /\ LET start_idx == Find(doc.key, Join(doc.runs))
     IN  doc' = [doc EXCEPT !.pc = "loop", !.start_idx = start_idx,
                            !.end_idx = start_idx + Len(doc.key),
                            !.current_idx = 0, !.i = 1, !.para = <<>>]
  /\ UNCHANGED NotDoc

\* Lines 26-66: one pass of the loop.
DRun ==
  /\ doc.pc = "loop"
  /\ doc.i <= Len(doc.runs)
  /\ doc' = [doc EXCEPT
       !.para = @ \o OneRun(doc.runs, doc.i, doc.current_idx, doc.start_idx,
                            doc.end_idx, doc.key, doc.value),
       !.current_idx = @ + Len(doc.runs[doc.i]),
       !.i = @ + 1]
  /\ UNCHANGED NotDoc

\* The loop is over.
DReturn ==
  /\ doc.pc = "loop"
  /\ doc.i > Len(doc.runs)
  /\ doc' = [doc EXCEPT !.pc = "returned"]
  /\ UNCHANGED NotDoc

DocInit ==
  /\ clock = StartClock
  /\ locking = FALSE
  /\ files = Leftovers
  /\ removed = {}
  /\ runs = 0
  /\ ses = [s \in Sessions |-> Fresh]
  /\ pipe = PipeIdle
  /\ norm = NormIdle
  /\ doc = DocIdle
  /\ app = AppIdle

DocNext ==
  \/ DCall
  \/ DAbsent
  \/ DClear
  \/ DRun
  \/ DReturn

DocSpec == DocInit /\ [][DocNext]_vars

\* ------------------------------------ the plotting scripts, stage by stage
\* The variables a run of a plotting script leaves alone.
NotApp == <<clock, locking, files, removed, runs, ses, pipe, norm, doc>>

\* df.columns.str.strip().str.upper() (app.py 15), for the column names of
\* Tables.
ColumnNames == <<"Year", "Month", "Day", "Temperature", "Rain">> \o Months
UpperNames ==
  <<"YEAR", "MONTH", "DAY", "TEMPERATURE", "RAIN",
    "JAN", "FEB", "MAR", "APR", "MAY", "JUN",
    "JUL", "AUG", "SEP", "OCT", "NOV", "DEC">>
Upper(name) == UpperNames[CHOOSE k \in 1..Len(ColumnNames) : ColumnNames[k] = name]
UpperCols(t) == [t EXCEPT !.cols = [k \in 1..Len(t.cols) |-> Upper(t.cols[k])]]

\* The values as they are, for the scripts that draw no anomaly
\* (clim_app2.py 100-102, plot_pre_trends.py 89-91).
Raw(values) == [i \in 1..Len(values) |-> QInt(values[i])]

\* The run is over.
Over(a, outcome) == [a EXCEPT !.pc = "over", !.outcome = outcome]
\* st.error, st.info or st.markdown shows a message.
Tell(a, m) == [a EXCEPT !.msgs = @ \cup {m}]

\* The bars of ax.bar(df['Year'], df['Anomaly'], ...).
Bars(years, heights) == [i \in 1..Len(years) |-> [x |-> years[i], height |-> heights[i]]]

\* The script draws bars: plot_bars_v2.py 120, mosaic3_plot.py 113-116.
DrawsBars(a) ==
  \/ a.script = "plot_bars_v2"
  \/ a.script \in MosaicScripts /\ a.plot_type = "Bars"

\* A run starts: the upload and the widgets of the sidebar are read, and the
\* example data is built by the scripts that offer it.
AStart ==
  /\ app.pc = "idle"
  /\ \E script \in Scripts, up \in BOOLEAN, k \in 1..Len(Tables),
        opens \in BOOLEAN, save \in BOOLEAN, fmt \in FileFormats,
        manual \in ColorRanges, scr \in BOOLEAN, ac \in BOOLEAN :
       \E pt \in PlotTypes(script) :
         app' = [AppIdle EXCEPT
           !.pc = "main",
           !.script = script,
           !.uploaded = up,
           !.table = IF up /\ script \notin NetcdfScripts THEN Tables[k] ELSE NoTable,
           !.opens = up /\ script \in NetcdfScripts /\ opens,
           !.save = up /\ script = "netcdf_visualizer2" /\ save,
           !.plot_type = pt,
           !.auto_center = script \in MosaicScripts /\ ac,
           !.set_color_range = script \in CsvScripts /\ scr,
           !.manual = IF script \in CsvScripts /\ scr THEN manual ELSE <<0 - 2, 2>>,
           !.file_format = IF script \in CsvScripts THEN fmt ELSE "PNG",
           !.example = script \in WithExample]
  /\ UNCHANGED NotApp

\* No file is uploaded.  app.py goes on at line 26, outside the if of line 11,
\* with df undefined: NameError.  The other scripts show their prompt in the
\* else of "if uploaded_file".
ANoUpload ==
  /\ app.pc = "main"
  /\ ~app.uploaded
  /\ app' = IF app.script = "app" THEN Over(app, "uncaught")
            ELSE Over(Tell(app, "prompt"), "prompt")
  /\ UNCHANGED NotApp

\* The upload is read and its columns are checked.
ARead ==
  /\ app.pc = "main"
  /\ app.uploaded
  /\ LET a == [app EXCEPT !.read = TRUE]
         t == app.table
     IN  IF app.script \in NetcdfScripts
         THEN \* open_dataset, subset and map: plot_regions.py 61-170 and 181-183,
              \* netcdf_visualizer2.py 146-297
              app' = IF app.opens THEN [a EXCEPT !.pc = "export", !.plotted = TRUE]
                     ELSE Over(Tell(a, "error"), "stopped")
         ELSE IF app.script = "app"
         THEN \* app.py 13-64: YEAR, MONTH and DAY are read without a check, the
              \* variable is selected among the other columns
              LET u == UpperCols(t)
                  b == [a EXCEPT !.computed = TRUE]
                  rest == Pick(u.cols, {k \in 1..Len(u.cols) :
                                          u.cols[k] \notin {"YEAR", "MONTH", "DAY", "DATE"}})
              IN  IF HasCol(u, "YEAR") /\ HasCol(u, "MONTH") /\ HasCol(u, "DAY") /\ rest # <<>>
                  THEN \E v \in 1..Len(rest) :
                         app' = Over([b EXCEPT !.parameter = {rest[v]}, !.plotted = TRUE],
                                     "shown")
                  ELSE app' = Over(b, "uncaught")
         ELSE IF app.script = "clim_app2"
         THEN \* clim_app2.py 72-74
              app' = IF HasCol(t, "Year") /\ HasCol(t, "Temperature")
                     THEN [a EXCEPT !.pc = "sort", !.parameter = {"Temperature"}]
                     ELSE Over(Tell(a, "need_columns"), "stopped")
         ELSE IF ~HasCol(t, "Year")
         THEN \* plot_bars_v2.py 76-78, plot_pre_trends.py 66-68, mosaic3_plot.py 72-74
              app' = Over(Tell(a, "need_year"), "stopped")
         ELSE IF app.script \in {"clim_plot", "plot_bars_v2"}
         THEN \* plot_bars_v2.py 80-86
              IF OtherCols(t) = <<>>
              THEN app' = Over(Tell(a, "need_parameter"), "stopped")
              ELSE \E p \in 1..Len(OtherCols(t)) :
                     app' = [a EXCEPT !.pc = "sort", !.parameter = {OtherCols(t)[p]}]
         ELSE IF app.script = "plot_pre_trends"
         THEN \* plot_pre_trends.py 71-72: st.selectbox of no option returns None
              IF OtherCols(t) = <<>>
              THEN app' = [a EXCEPT !.pc = "sort"]
              ELSE \E p \in 1..Len(OtherCols(t)) :
                     app' = [a EXCEPT !.pc = "sort", !.parameter = {OtherCols(t)[p]}]
         ELSE app' = [a EXCEPT !.pc = "sort"]
  /\ UNCHANGED NotApp

\* The rows are sorted by Year, the year range is taken and the values to
\* draw are computed.
ASort ==
  /\ app.pc = "sort"
  /\ \E rows \in SortedByYear(app.table) :
       LET t == app.table
           years == Column(t, rows, "Year")
           a == [app EXCEPT !.computed = TRUE, !.df = rows,
                            !.min_max = {<<years[1], years[Len(years)]>>}]
           of(p) == Column(t, rows, p)
       IN  IF app.script = "clim_app2"
           THEN app' = [a EXCEPT !.pc = "norm", !.series = Raw(of("Temperature"))]
           ELSE IF app.script = "plot_pre_trends"
           THEN \* df[None] at line 84 raises KeyError, handled at line 138
                app' = IF app.parameter = {} THEN Over(Tell(a, "error"), "error")
                       ELSE [a EXCEPT !.pc = "norm",
                                      !.series = Raw(of(CHOOSE p \in app.parameter : TRUE))]
           ELSE IF app.script \in {"clim_plot", "plot_bars_v2"}
           THEN app' = [a EXCEPT !.pc = "norm",
                                 !.series = Anomaly(of(CHOOSE p \in app.parameter : TRUE))]
           ELSE IF app.plot_type \in {"Stripes", "Bars"}
           THEN \* mosaic3_plot.py 84-88: df[None] raises KeyError, which nothing
                \* handles
                IF OtherCols(t) = <<>> THEN app' = Over(a, "uncaught")
                ELSE \E p \in 1..Len(OtherCols(t)) :
                       app' = [a EXCEPT !.pc = "norm", !.parameter = {OtherCols(t)[p]},
                                        !.series = Anomaly(of(OtherCols(t)[p]))]
           ELSE \* mosaic3_plot.py 138-172
                IF Len(OtherCols(t)) # 12 THEN app' = Over(Tell(a, "need_12"), "stopped")
                ELSE \E december \in BOOLEAN :
                       LET monthly == MonthlyAnomaly(t, rows)
                           m == IF app.plot_type = "Seasonal Mosaic"
                                THEN Seasonal(monthly) ELSE monthly
                       IN  app' = [a EXCEPT !.pc = "norm",
                                     !.matrix = IF december /\ app.script = "mosaic3_plot"
                                                THEN Reversed(m) ELSE m]
  /\ UNCHANGED NotApp

\* The colour range and the norm.
ANorm ==
  /\ app.pc = "norm"
  /\ LET values == IF app.matrix # <<>> THEN MatrixValues(app.matrix)
                   ELSE SeriesValues(app.series)
         rng == ColorRange(values, app.auto_center, app.set_color_range, app.manual)
     IN  IF app.script \in MosaicScripts
         THEN IF app.plot_type = "Interactive Mosaic"
              THEN \* mosaic_plot.py: px.imshow and st.plotly_chart, no export
                   app' = Over([app EXCEPT !.plotted = TRUE], "shown")
              ELSE LET a == [app EXCEPT !.norm = {[kind |-> "TwoSlopeNorm",
                                                   vmin |-> rng[1], vmax |-> rng[2]]}]
                   IN  app' = IF TwoSlopeOk(rng[1], rng[2]) THEN [a EXCEPT !.pc = "plot"]
                              ELSE Over(a, "uncaught")
         ELSE LET a == [app EXCEPT !.norm = {[kind |-> "Normalize",
                                              vmin |-> rng[1], vmax |-> rng[2]]}]
              IN  app' = IF NormalizeOk(rng[1], rng[2]) THEN [a EXCEPT !.pc = "plot"]
                         ELSE Over(Tell(a, "error"), "error")
  /\ UNCHANGED NotApp

\* The stripes, bars or mosaic are drawn and st.pyplot shows the figure.
APlot ==
  /\ app.pc = "plot"
  /\ app' = [app EXCEPT
       !.pc = "export",
       !.plotted = TRUE,
       !.bars = IF DrawsBars(app)
                THEN {Bars(Column(app.table, app.df, "Year"), app.series)} ELSE {}]
  /\ UNCHANGED NotApp

\* The image download is offered: always by the CSV scripts and by
\* plot_regions.py, on "Save Plot" by netcdf_visualizer2.py (line 300).
AExport ==
  /\ app.pc = "export"
  /\ app' = Over([app EXCEPT !.download =
                    IF app.script = "netcdf_visualizer2" /\ ~app.save THEN {}
                    ELSE {FileName(app.script, app.stem, app.parameter, app.min_max,
                                   app.file_format)}],
                 "shown")
  /\ UNCHANGED NotApp

AppInit ==
  /\ clock = StartClock
  /\ locking = FALSE
  /\ files = Leftovers
  /\ removed = {}
  /\ runs = 0
  /\ ses = [s \in Sessions |-> Fresh]
  /\ pipe = PipeIdle
  /\ norm = NormIdle
  /\ doc = DocIdle
  /\ app = AppIdle

AppNext ==
  \/ AStart
  \/ ANoUpload
  \/ ARead
  \/ ASort
  \/ ANorm
  \/ APlot
  \/ AExport

AppSpec == AppInit /\ [][AppNext]_vars

\* ------------------------------------------------------------------ claims
\* The script run of session s that wrote a file.
Run(s) == <<s, ses[s].run>>

\* The scratch file of session s as its own run wrote it.
OwnFile(s) ==
  /\ ses[s].temp_path \in Names
  /\ files[ses[s].temp_path].owner = Run(s)

\* C1: the engines are tried in the order netcdf4, h5netcdf, scipy; the loop
\* goes on only while nothing is opened, the Dataset comes from the engine tried
\* last (no engine is tried after the one that opens the file); when all three
\* have failed the run reports the file unreadable and stops, with no Dataset
\* and no stage after loading entered.
C1_EngineOrder ==
  \A s \in Sessions :
    LET r == ses[s]
        n == Len(r.tried)
    IN  /\ n <= 3
        /\ r.tried = SubSeq(<<"netcdf4", "h5netcdf", "scipy">>, 1, n)
        /\ r.pc = "open" => r.data = {} /\ n < 3
        /\ r.data # {} => n > 0 /\ r.data = {r.tried[n]}
        /\ r.pc = "loaded" => r.data # {}
        /\ (n = 3 /\ r.data = {}) =>
             /\ r.outcome = "unreadable"
             /\ r.stage = "none"
             /\ r.pc \in {"fin", "rm", "done"}
        /\ r.outcome = "unreadable" => n = 3 /\ r.data = {}
        /\ r.stage # "none" => r.data # {}

\* C1: one run has tried all three engines in vain while another run holds a
\* Dataset that the second engine opened.
C1_Witness ==
  \E s \in Sessions, u \in Sessions :
    /\ ses[s].outcome = "unreadable"
    /\ ses[s].tried = <<"netcdf4", "h5netcdf", "scipy">>
    /\ ses[u].data = {"h5netcdf"}
    /\ ses[u].tried = <<"netcdf4", "h5netcdf">>

\* C2: the warnings of a run count the engines that failed: as many as the
\* engines tried while the loop runs (each is emitted before the next engine is
\* tried), as many as the engines before the one that opened the file on
\* success (0, 1 or 2), three when all fail; a scratch file that only the third
\* engine opens gives two warnings and then the Dataset; no engine that is
\* able to open the scratch file the run wrote is passed over with a warning.
C2_WarningCount ==
  \A s \in Sessions :
    LET r == ses[s]
        n == Len(r.tried)
    IN  /\ r.warnings = n - Cardinality(r.data)
        /\ r.pc = "open" => r.warnings = n
        /\ r.data = {"netcdf4"} => r.warnings = 0
        /\ r.data = {"h5netcdf"} => r.warnings = 1
        /\ r.data = {"scipy"} => r.warnings = 2
        /\ r.outcome = "unreadable" => r.warnings = 3
        /\ (r.pc \in {"open", "loaded"} /\ OwnFile(s)) =>
             /\ \A i \in 1..r.warnings : r.tried[i] \notin files[r.temp_path].content
             /\ r.data \subseteq files[r.temp_path].content
        /\ (r.pc = "loaded" /\ OwnFile(s) /\ files[r.temp_path].content = {"scipy"}) =>
             r.warnings = 2 /\ r.data = {"scipy"}

\* C2: a run has loaded, with two warnings, the file it wrote, which only the
\* third engine opens.
C2_Witness ==
  \E s \in Sessions :
    /\ ses[s].pc = "loaded"
    /\ OwnFile(s)
    /\ files[ses[s].temp_path].content = {"scipy"}
    /\ ses[s].warnings = 2
    /\ ses[s].data = {"scipy"}

\* C3: two runs in progress at once never have the same scratch path.
C3_DistinctPaths ==
  \A s \in Sessions, u \in Sessions :
    (s # u /\ ses[s].temp_path # -1 /\ ses[u].temp_path # -1)
      => ses[s].temp_path # ses[u].temp_path

\* C4: a scratch file is removed or rewritten only by the on-exit deletion of
\* the run that wrote it, or by an age sweep once it is older than an hour.
C4_ExclusiveOwner ==
  [][\A f \in DOMAIN files :
       (f \notin DOMAIN files' \/ files'[f] # files[f]) =>
         \E s \in Sessions :
           /\ ses'[s] # ses[s]
           /\ \/ ses[s].pc = "rm" /\ files[f].owner = Run(s)
              \/ ses[s].pc = "sw_rm" /\ Expired(ses[s].now - files[f].mtime)]_vars

\* C5: a deletion is attempted only once the Dataset opened from the file is
\* released, and a path that was removed is not in the directory again.
C5_Lifecycle ==
  /\ \A s \in Sessions : ses[s].pc = "rm" => ~HeldOpen(ses[s].temp_path)
  /\ removed \cap Names = {}

\* C6: a run that has chosen a scratch path leaves the try only through the
\* finally, by whatever exit; the finally attempts the deletion exactly when the
\* file exists; every deletion attempt, failed or not, leaves the outcome of
\* the run as it was and ends the run or is followed by another attempt.
C6_CleanupAlways ==
  [][\A s \in Sessions :
       LET a == ses[s]
           b == ses'[s]
       IN  b # a =>
             /\ a.pc \in {"write", "open", "loaded"} =>
                  /\ b.pc \in {"open", "loaded", "fin"}
                  /\ b.pc = "fin" => b.outcome \in
                       {"rendered", "file_error", "unreadable", "missing_coords",
                        "plot_error", "stopped"}
             /\ a.pc = "fin" =>
                  /\ b.pc = IF a.temp_path \in Names THEN "rm" ELSE "done"
                  /\ b.outcome = a.outcome
                  /\ b.attempts = 0
             /\ a.pc = "rm" =>
                  /\ b.attempts = a.attempts + 1
                  /\ b.pc \in {"rm", "done"}
                  /\ b.outcome = a.outcome
             /\ (b.pc = "done" /\ a.temp_path # -1) => a.pc \in {"fin", "rm"}]_vars

\* C6: a run the user stopped with a Dataset open has ended with its outcome
\* kept, after a deletion that failed five times.
C6_Witness ==
  \E s \in Sessions :
    /\ ses[s].pc = "done"
    /\ ses[s].outcome = "stopped"
    /\ ses[s].data # {}
    /\ ses[s].attempts = 5
    /\ ses[s].ret = "False"
    /\ ses[s].temp_path \in Names

\* C7: safe_remove makes at most 5 attempts, one more at each pass, so it
\* ends; it returns True at the first attempt that succeeds and False only
\* after 5 attempts that the lock refused, making no attempt after it returned;
\* the k-th refused attempt is followed by a sleep of 0.5 * k seconds, longer
\* than the sleep before it.
C7_SafeRemove ==
  /\ [](\A s \in Sessions :
          /\ ses[s].attempts <= 5
          /\ ses[s].ret # "None" => ses[s].pc = "done"
          /\ ses[s].ret = "False" => ses[s].attempts = 5)
  /\ [][\A s \in Sessions :
          LET a == ses[s]
              b == ses'[s]
              k == a.attempts + 1
          IN  (a.pc = "rm" /\ b # a) =>
                /\ a.ret = "None"
                /\ b.attempts = k
                /\ (a.temp_path \in Names /\ ~Locked(a.temp_path)) =>
                     /\ b.ret = "True"
                     /\ a.temp_path \notin DOMAIN files'
                /\ (a.temp_path \in Names /\ Locked(a.temp_path)) =>
                     /\ 2 * b.waited = k * TicksPerSec
                     /\ k > 1 => b.waited > a.waited
                     /\ b.ret = IF k = 5 THEN "False" ELSE "None"
                     /\ b.pc = IF k = 5 THEN "done" ELSE "rm"]_vars

\* C7: safe_remove has returned False after its fifth refused attempt and a
\* last sleep of 2.5 seconds.
C7_Witness ==
  \E s \in Sessions :
    /\ ses[s].ret = "False"
    /\ ses[s].attempts = 5
    /\ 2 * ses[s].waited = 5 * TicksPerSec

\* C8: when a call of cleanup_temp_dir is over, no file it listed is left in
\* the directory unvisited and older than an hour.
C8_SweepVisitsAll ==
  \A s \in Sessions :
    ses[s].pc \notin {"sw_loop", "sw_mtime", "sw_rm"} =>
      \A f \in ses[s].listing \cap Names :
        ~Expired(ses[s].now - files[f].mtime)

C10_ExactlyOne ==
  \A s \in Sessions :
    ses[s].pc \in {"open", "loaded", "fin", "rm", "done"} /\ ses[s].temp_path # -1
      => ses[s].created = 1

\* C10, amended: a run creates at most one scratch file, at temp_path and in
\* lines 148-149 only: one when open(temp_path, "wb") succeeds on a path not in
\* the directory, none when it raises or the path exists; the engine attempts
\* create none.
C10_AtMostOne ==
  [][\A s \in Sessions :
       LET a == ses[s]
           b == ses'[s]
           new == DOMAIN files' \ DOMAIN files
       IN  b # a =>
             /\ b.created <= 1
             /\ new \subseteq {a.temp_path}
             /\ a.pc = "write" =>
                  /\ b.created = Cardinality(new)
                  /\ b.pc = "open" => a.temp_path \in DOMAIN files'
                  /\ (b.pc = "open" /\ a.temp_path \notin DOMAIN files) => b.created = 1
             /\ a.pc # "write" => new = {} /\ b.created \in {a.created, 0}]_vars

\* C10: a run has tried all three engines and left one file, the only one it
\* created.
C10_Witness ==
  \E s \in Sessions :
    /\ ses[s].pc = "fin"
    /\ Len(ses[s].tried) = 3
    /\ ses[s].created = 1
    /\ OwnFile(s)
    /\ Cardinality({f \in Names : files[f].owner = Run(s)}) = 1

\* The stages of the pipeline a run is past: the subset is made, the variables
\* are listed and selected, the grids are made.
PastSubset ==
  \/ pipe.pc \in {"vars", "reduce", "grids", "extent", "draw", "markers",
                  "finish", "shown", "failed"}
  \/ pipe.pc = "stopped" /\ pipe.path # "none"
PastVars == PastSubset /\ pipe.pc # "vars"
PastGrids ==
  \/ pipe.pc \in {"extent", "draw", "markers", "finish", "shown"}
  \/ pipe.pc = "stopped" /\ pipe.path # "none"
  \/ pipe.pc = "failed" /\ pipe.extent # {}

\* C11: a variable of two or more dimensions, two of them named by the
\* latitude and longitude coordinates the probe detected, is reduced to those
\* two dimensions, every other dimension pinned at index 0.
C11_ReduceTo2d ==
  (pipe.main_var # {} /\ pipe.main_data # NoArray) =>
    LET v == SubsetVar(pipe, CHOOSE x \in pipe.main_var : TRUE)
        spatial == {i \in 1..Len(v.dims) : v.dims[i] \in pipe.lat_var \cup pipe.lon_var}
    IN  (Len(v.dims) >= 2 /\ Cardinality(spatial) = 2) =>
          /\ pipe.main_data.dims = Pick(v.dims, spatial)
          /\ Len(pipe.main_data.shape) = 2
          /\ pipe.main_data.pinned =
               {<<v.dims[i], 0>> : i \in (1..Len(v.dims)) \ spatial}

\* C12: lat_var is the first of latitude, lat, y among the coordinates and
\* lon_var the first of longitude, lon, x; when one is missing the run shows
\* the missing-coordinates error and stops with nothing subset, listed,
\* selected or drawn, and it stops so in no other case.
C12_FirstAlias ==
  pipe.pc \notin {"idle", "probe"} =>
    LET c == pipe.coords IN
    /\ pipe.lat_var = IF "latitude" \in c THEN {"latitude"}
                      ELSE IF "lat" \in c THEN {"lat"}
                      ELSE IF "y" \in c THEN {"y"} ELSE {}
    /\ pipe.lon_var = IF "longitude" \in c THEN {"longitude"}
                      ELSE IF "lon" \in c THEN {"lon"}
                      ELSE IF "x" \in c THEN {"x"} ELSE {}
    /\ (pipe.lat_var = {} \/ pipe.lon_var = {}) <=> "missing_coords" \in pipe.msgs
    /\ "missing_coords" \in pipe.msgs =>
         /\ pipe.pc = "stopped"
         /\ pipe.subset = NoGrid
         /\ pipe.all_vars = <<>> /\ pipe.spatial_vars = <<>>
         /\ pipe.main_var = {}
         /\ pipe.path = "none" /\ pipe.extent = {} /\ pipe.marks = {}

\* C12: the run has stopped for want of a latitude, the longitude found being
\* lon, the first present of its aliases.
C12_Witness ==
  /\ pipe.pc = "stopped"
  /\ pipe.coords = {"time", "x", "lon"}
  /\ pipe.lat_var = {}
  /\ pipe.lon_var = {"lon"}
  /\ "missing_coords" \in pipe.msgs

\* C13: the names offered are those of the data variables, in their order,
\* that have two or more dimensions, whose name in lower case holds none of the
\* time keywords and whose type is not datetime64, a time dimension making no
\* difference; when there is none, all the names are offered, a message is
\* shown and the run goes on.
C13_VariableList ==
  PastVars =>
    LET all == pipe.all_vars
        timed(v) == \E k \in 1..Len(time_keywords) :
                      Contains(time_keywords[k], Lower(v.name))
        ok == {i \in 1..Len(all) :
                 Len(all[i].dims) >= 2 /\ ~timed(all[i]) /\ all[i].kind # "M"}
        names(S) == Pick([i \in 1..Len(all) |-> all[i].name], S)
    IN  /\ pipe.spatial_vars = IF ok = {} THEN names(1..Len(all)) ELSE names(ok)
        /\ ok = {} <=> "no_spatial_vars" \in pipe.msgs
        /\ \A i \in 1..Len(all) :
             (all[i] = Precip) => (\E k \in 1..Len(pipe.spatial_vars) :
                                     pipe.spatial_vars[k] = Precip.name)
        /\ pipe.main_var \subseteq {pipe.spatial_vars[k] : k \in 1..Len(pipe.spatial_vars)}

\* C13: of seven variables the four eligible are offered, the one with a time
\* dimension among them, and one is selected.
C13_Witness ==
  /\ pipe.pc = "reduce"
  /\ Len(pipe.all_vars) = 7
  /\ pipe.spatial_vars = <<Precip.name, Pval.name, Flags.name, Tp.name>>
  /\ pipe.main_var = {Precip.name}

\* C14: a point of the grid has a value in the subset exactly when its
\* latitude and its longitude lie within the bounds, the bounds included; the
\* rows and columns kept carry the coordinates they had; the subsetter shows
\* no message and the run goes on, the subset being empty or not.
C14_InclusiveBox ==
  PastSubset =>
    LET d == pipe.data
        s == pipe.subset
        R == pipe.region
    IN  /\ \A i \in 1..Len(d.rows), j \in 1..Len(d.cols) :
             <<i, j>> \in s.defined <=>
               /\ R.lat_min <= LatAt(d, i, j) /\ LatAt(d, i, j) <= R.lat_max
               /\ R.lon_min <= LonAt(d, i, j) /\ LonAt(d, i, j) <= R.lon_max
        /\ \A a \in 1..Len(s.rows), b \in 1..Len(s.cols) :
             /\ LatAt(s, a, b) = LatAt(d, s.rows[a], s.cols[b])
             /\ LonAt(s, a, b) = LonAt(d, s.rows[a], s.cols[b])
        /\ \A p \in s.defined :
             \E a \in 1..Len(s.rows), b \in 1..Len(s.cols) : p = <<s.rows[a], s.cols[b]>>
        /\ pipe.pc = "vars" => pipe.msgs = {}

\* C14: a box without height has kept the points on its bound and dropped
\* others.
C14_Witness ==
  /\ pipe.pc = "vars"
  /\ pipe.region.lat_min = pipe.region.lat_max
  /\ pipe.subset.defined # {}
  /\ pipe.subset.defined # pipe.data.defined

\* C15: the subset, subset again to the same region, is the subset.
C15_SubsetIdempotent ==
  PastSubset => Where(pipe.subset, pipe.region) = pipe.subset

\* C15: the subset of a curvilinear grid keeps a point without a value.
C15_Witness ==
  /\ pipe.pc = "vars"
  /\ pipe.subset.defined # {}
  /\ Cardinality(pipe.subset.defined) < Len(pipe.subset.rows) * Len(pipe.subset.cols)

\* C16: the region given to the where and to ax.set_extent has its bounds in
\* order on both axes.
C16_RegionOrdered ==
  /\ PastSubset =>
       /\ pipe.region.lat_min <= pipe.region.lat_max
       /\ pipe.region.lon_min <= pipe.region.lon_max
  /\ \A R \in pipe.extent : R.lat_min <= R.lat_max /\ R.lon_min <= R.lon_max

\* C17: when the shape of the field differs from that of the grids the
\* contour-fill call is made and the render goes on, nothing raised and the
\* run not stopped; the mesh call is made only when the three shapes agree.
C17_FallbackCompletes ==
  pipe.path # "none" =>
    LET agree == pipe.lat.shape = PShape(pipe) /\ pipe.lon.shape = PShape(pipe)
    IN  /\ ~agree =>
             /\ pipe.path = "contourf"
             /\ pipe.pc # "stopped"
             /\ "plotting_failed" \notin pipe.msgs
        /\ pipe.path = "pcolormesh" => agree

C19_Meshgrid ==
  PastGrids =>
    LET la == pipe.subset.lat
        lo == pipe.subset.lon
    IN  /\ (Len(la.shape) = 1 /\ Len(lo.shape) = 1) =>
             LET M == Len(la.v)
                 N == Len(lo.v)
             IN  /\ pipe.lat.shape = <<M, N>> /\ pipe.lon.shape = <<M, N>>
                 /\ Len(pipe.lat.v) = M /\ Len(pipe.lon.v) = M
                 /\ \A i \in 1..M :
                      /\ Len(pipe.lat.v[i]) = N /\ Len(pipe.lon.v[i]) = N
                      /\ \A j \in 1..N :
                           pipe.lat.v[i][j] = la.v[i] /\ pipe.lon.v[i][j] = lo.v[j]
        /\ (Len(la.shape) = 2 /\ Len(lo.shape) = 2) =>
             pipe.lat = la /\ pipe.lon = lo

\* C19: grids of two rows and one column are made of a latitude of length 2
\* and a longitude of length 1.
C19_Witness ==
  /\ pipe.pc = "extent"
  /\ pipe.subset.lat.shape = <<2>>
  /\ pipe.subset.lon.shape = <<1>>
  /\ pipe.lat.v = << <<pipe.subset.lat.v[1]>>, <<pipe.subset.lat.v[2]>> >>
  /\ pipe.subset.lat.v[1] # pipe.subset.lat.v[2]

\* C20: ax.scatter is called only with a p-value variable selected, numeric
\* and of the shape of the field, and then with exactly the positions where the
\* p-value is below the threshold; it is called in that case unless the
\* processing raises; a field that is not numeric or of another shape, and an
\* exception, each show their message and leave no marker; in every case the
\* run goes on to the colorbar, the title and the display.
C20_Markers ==
  LET sel == pipe.pvalue_var # NoneOption
      P == CHOOSE a \in pipe.pdata : TRUE
      V == CHOOSE a \in pipe.pdata_2d : TRUE
      below == {<<i, j>> \in (1..PShape(pipe)[1]) \X (1..PShape(pipe)[2]) :
                  V.v[i][j] < pipe.p_threshold}
  IN  /\ pipe.marks # {} =>
           /\ sel /\ pipe.pdata # {} /\ pipe.pdata_2d # {}
           /\ P.kind \in {"i", "u", "f", "c"}
           /\ P.shape = PShape(pipe) /\ V.shape = PShape(pipe)
           /\ pipe.marks = {below}
           /\ pipe.msgs \cap {"p_not_numeric", "p_shape_mismatch", "p_error"} = {}
      /\ pipe.pdata # {} =>
           /\ sel
           /\ pipe.pc \in {"finish", "shown"}
           /\ P.kind \notin {"i", "u", "f", "c"} <=> "p_not_numeric" \in pipe.msgs
           /\ (P.kind \in {"i", "u", "f", "c"} /\ P.shape # PShape(pipe))
                <=> "p_shape_mismatch" \in pipe.msgs
           /\ (pipe.msgs \cap {"p_not_numeric", "p_shape_mismatch", "p_error"} = {})
                <=> pipe.marks # {}
      /\ (pipe.pc \in {"finish", "shown"} /\ ~sel) => pipe.marks = {} /\ pipe.pdata = {}

\* C20: the plot is shown with markers at some positions of the field and not
\* at others.
C20_Witness ==
  /\ pipe.pc = "shown"
  /\ \E m \in pipe.marks :
       /\ m # {}
       /\ m # (1..PShape(pipe)[1]) \X (1..PShape(pipe)[2])

\* C21: of an array of a numeric kind (i, u, f, c) process_data returns the
\* array of the same shape whose every element is the element times the scale
\* factor, with no warning; of an array that is neither numeric nor datetime64
\* it raises ValueError and returns nothing.
C21_Scaled ==
  norm.pc \in {"returned", "raised"} =>
    LET a == norm.a IN
    /\ a.kind \in {"i", "u", "f", "c"} =>
         /\ norm.pc = "returned" /\ norm.raised = "none" /\ ~norm.warned
         /\ \E r \in norm.out :
              /\ norm.out = {r}
              /\ r.shape = a.shape
              /\ Len(r.flat) = Len(a.flat)
              /\ \A i \in 1..Len(a.flat) :
                   IF a.kind = "c"
                   THEN r.flat[i][1] = a.flat[i][1] * norm.s
                        /\ r.flat[i][2] = a.flat[i][2] * norm.s
                   ELSE r.flat[i] = a.flat[i] * norm.s
    /\ a.kind \notin {"i", "u", "f", "c", "M"} =>
         /\ norm.pc = "raised" /\ norm.raised = "ValueError"
         /\ norm.out = {}
    /\ process_data(a) = {r.shape : r \in norm.out}

\* C21: a complex array of shape (1, 2) has come back with its sign turned.
C21_Witness ==
  /\ norm.pc = "returned"
  /\ norm.a.kind = "c" /\ norm.a.shape = <<1, 2>>
  /\ norm.s = 0 - 1
  /\ norm.a.flat = << <<1, 2>>, <<0, 1>> >>
  /\ \E r \in norm.out : r.flat = << <<0 - 1, 0 - 2>>, <<0, 0 - 1>> >>

\* C22: of a datetime64 array of any rank process_data returns, with a
\* warning, the array of the same shape that holds the ordinal of the day of
\* each element, whatever the scale factor.
C22_Ordinals ==
  (norm.pc \in {"returned", "raised"} /\ norm.a.kind = "M") =>
    /\ norm.pc = "returned"
    /\ norm.warned
    /\ \E r \in norm.out :
         /\ r.shape = norm.a.shape
         /\ \A i \in 1..Len(norm.a.flat) :
              r.flat[i] = EpochOrdinal + (norm.a.flat[i] \div StampsPerDay)

\* C27: when replace_placeholder has returned, the text of the paragraph is
\* the text it had with the first occurrence of the key replaced by the value,
\* and the text it had when the key is not in it.
C27_Replaced ==
  doc.pc = "returned" =>
    LET text == Join(doc.runs)
        now == Join([i \in 1..Len(doc.para) |-> doc.para[i].text])
        at == {p \in 1..(Len(text) - Len(doc.key) + 1) :
                 SubSeq(text, p, p + Len(doc.key) - 1) = doc.key}
    IN  IF at = {} THEN now = text
        ELSE LET p == CHOOSE q \in at : \A r \in at : q <= r
             IN  now = SubSeq(text, 1, p - 1) \o doc.value
                         \o SubSeq(text, p + Len(doc.key), Len(text))

\* C23: no script run ends by an exception that nothing in the script catches.
C23_NothingEscapes ==
  \A s \in Sessions : ses[s].outcome # "uncaught"

\* C29: while a run is inside cleanup_temp_dir it has named and written no
\* scratch file, and the file it is about to remove is not one it wrote; a run
\* without an upload names and writes no scratch file and is inside
\* cleanup_temp_dir only by the button.
C29_SweepFirst ==
  \A s \in Sessions :
    LET r == ses[s]
        sweeping == r.pc \in {"sweep", "sw_loop", "sw_mtime", "sw_rm"}
    IN  /\ sweeping =>
             /\ r.temp_path = -1 /\ r.created = 0
             /\ \A f \in Names : files[f].owner # Run(s)
        /\ r.pc # "idle" /\ ~r.uploaded =>
             /\ r.temp_path = -1 /\ r.created = 0
             /\ \A f \in Names : files[f].owner # Run(s)
             /\ sweeping => r.site = "button"
        /\ r.pc \in {"name", "write"} => r.uploaded /\ r.site = "none"

\* C29: a run with an upload has written its scratch file after its sweep
\* removed the file older than an hour.
C29_Witness ==
  \E s \in Sessions :
    /\ ses[s].pc = "open"
    /\ ses[s].uploaded
    /\ ses[s].temp_path \in Names
    /\ files[ses[s].temp_path].owner = Run(s)
    /\ 0 \in removed

\* C24: in the bar scripts (plot_bars_v2.py, and the Bars plot of the mosaic
\* scripts), for the rows sorted by Year, the bar of each row stands at the
\* row's year, its height is the row's value minus the mean of the whole
\* column, and the heights sum to zero.  The arithmetic is exact (rationals).
C24_BarAnomalies ==
  \A b \in app.bars :
    LET t == app.table
        values == Column(t, app.df, CHOOSE p \in app.parameter : TRUE)
        years == Column(t, app.df, "Year")
        n == Len(values)
        total == QSum([i \in 1..n |-> <<values[i], 1>>])[1]
    IN  /\ Len(b) = n
        /\ n = Len(t.rows)
        /\ \A i \in 1..(n - 1) : years[i] <= years[i + 1]
        /\ \A r \in 1..n :
             Cardinality({i \in 1..n : app.df[i] = t.rows[r]})
               = Cardinality({i \in 1..n : t.rows[i] = t.rows[r]})
        /\ \A i \in 1..n :
             /\ b[i].x = years[i]
             /\ b[i].height[2] > 0
             /\ b[i].height[1] * n = (n * values[i] - total) * b[i].height[2]
        /\ QSum([i \in 1..n |-> b[i].height]) = <<0, 1>>

\* The bars of Year = [2001, 2000, 2002], Temperature = [12, 10, 11], as
\* uploaded, are -1, 1 and 0 at 2000, 2001 and 2002.
C24_Witness ==
  /\ app.pc = "over"
  /\ app.script = "plot_bars_v2"
  /\ app.table = Tables[1]
  /\ app.bars = { << [x |-> 2000, height |-> <<0 - 1, 1>>],
                     [x |-> 2001, height |-> <<1, 1>>],
                     [x |-> 2002, height |-> <<0, 1>>] >> }
  /\ app.download # {}

\* C25: in every CSV script, an upload without a Year column, or with a Year
\* column and no parameter column, ends in a message to the user, with no
\* plot and no download, and no exception escapes.
C25_MissingColumns ==
  ( /\ app.pc = "over"
    /\ app.script \in CsvScripts
    /\ app.uploaded
    /\ ~HasCol(app.table, "Year") \/ OtherCols(app.table) = <<>> )
  => /\ app.msgs # {}
     /\ ~app.plotted
     /\ app.download = {}
     /\ app.outcome # "uncaught"

\* C26, as the scripts name the download: clim_app2.py by the stem and the
\* year range, clim_plot.py, plot_bars_v2.py and plot_pre_trends.py by the
\* stem, the selected column and the year range, the mosaic scripts by the
\* fixed name climate_plot, each with the extension of the chosen format;
\* netcdf_visualizer2.py and plot_regions.py by the stem and .png.
C26_NameByScript ==
  \A d \in app.download :
    /\ app.plotted
    /\ app.script \in (CsvScripts \cup NetcdfScripts)
    /\ app.script \in CsvScripts =>
         /\ app.min_max # {}
         /\ d.ext = Ext(app.file_format)
    /\ app.script = "clim_app2" =>
         d.stem = app.stem /\ d.param = {} /\ d.years = app.min_max
    /\ app.script \in {"clim_plot", "plot_bars_v2", "plot_pre_trends"} =>
         /\ d.stem = app.stem
         /\ d.param = app.parameter /\ app.parameter # {}
         /\ d.years = app.min_max
    /\ app.script \in MosaicScripts =>
         d.stem = "climate_plot" /\ d.param = {} /\ d.years = {}
    /\ app.script \in NetcdfScripts =>
         d.stem = app.stem /\ d.param = {} /\ d.years = {} /\ d.ext = "png"

\* A mosaic script offers climate_plot.svg for data of 2000 to 2001.
C26_Witness ==
  /\ app.pc = "over"
  /\ app.script = "mosaic3_plot"
  /\ app.min_max = {<<2000, 2001>>}
  /\ app.download = {[stem |-> "climate_plot", param |-> {}, years |-> {}, ext |-> "svg"]}

\* C26, as stated: the name of every image download is made of the stem the
\* user typed and the year range of the data, with the extension of the chosen
\* format.
C26_StemAndYears ==
  \A d \in app.download :
    /\ d.stem = app.stem
    /\ app.min_max # {}
    /\ d.years = app.min_max
    /\ d.ext = Ext(app.file_format)

\* C28: in the mosaic scripts the range handed to TwoSlopeNorm has
\* vmin < 0 < vmax, for every dataset and every setting of auto-center and of
\* the manual range.
C28_RangeStraddlesZero ==
  \A n \in app.norm :
    n.kind = "TwoSlopeNorm" => n.vmin[1] < 0 /\ n.vmax[1] > 0

\* C30: a run of any script without an upload reads no data, computes nothing
\* on a table and plots nothing: it shows the widgets and the prompt, and
\* ends without an error.
C30_NoUploadIdle ==
  (app.pc = "over" /\ ~app.uploaded)
  => /\ app.outcome = "prompt"
     /\ "prompt" \in app.msgs
     /\ ~app.read
     /\ ~app.computed
     /\ ~app.plotted
     /\ app.download = {}

====
